---- MODULE Spec2Model ----
(***************************************************************************)
(* The ColdFire MCF52233 Fast Ethernet Controller (FEC) driver of the      *)
(* uIP web server demo, Demo/ColdFire_MCF52233_Eclipse/RTOSDemo/webserver/ *)
(* FEC.c: descriptor rings, MII access, link bring-up, the interrupt       *)
(* handler and the reset path, together with the hardware they talk to.    *)
(*                                                                         *)
(* Execution contexts:                                                     *)
(*   - the uIP task, which runs vInitFEC and then calls usGetFECRxData,    *)
(*     vDiscardRxData and vSendBufferToFEC; its position is pc, and it is  *)
(*     modelled statement by statement wherever vFEC_ISR can preempt it;   *)
(*   - vFEC_ISR, one atomic step, taken before any further task step as    *)
(*     soon as an enabled event is pending;                                *)
(*   - the FEC hardware (receive DMA, transmit DMA, error events).         *)
(* FEC registers hold what the code last wrote to them, except where the   *)
(* hardware is stated to act (EIR events, RDAR/TDAR, descriptor status).   *)
(***************************************************************************)
EXTENDS Integers, Sequences, FiniteSets, TLC

(* ------------------------------ bounds -------------------------------- *)
\* Largest receive ring depth explored (configNUM_FEC_RX_BUFFERS ranges over 1..MaxRxBuffers).
MaxRxBuffers == 2
\* Most polls a PHY register may need before it reports the awaited value.
MaxPhyPolls == 3
\* Most MII accesses that time out during one bring-up.
MaxMiiTimeouts == 1
\* Most frames numbered when the order of delivery is recorded.
MaxFrames == 3

(* ------------------------- program constants -------------------------- *)
fecMAX_POLLS == 20
fecNUM_FEC_TX_BUFFERS == 1
fecTX_BUFFER_TO_USE == 0
NULL == 0
\* Size of one receive buffer, in the model's length unit.
configFEC_BUFFER_SIZE == 2
\* PHY "not present" value of the identification register.
PHY_ID_ABSENT == 65535
\* MII register bits (mii.h / eth_phy.h values of IEEE 802.3 clause 22).
PHY_BMSR_AN_COMPLETE == 32
PHY_ANLPAR_100BTX_FDX == 256
PHY_ANLPAR_100BTX == 128
PHY_ANLPAR_10BTX_FDX == 64
PHY_ANLPAR_10BTX == 32

\* Lengths of the frames the hardware stores.
FrameLengths == {1}
\* Identification values of a PHY that is present (34 has the 0x20 bit set).
PhyIdValues == {1, 34}
\* Link-partner ability words: every combination of the four technology bits.
AbilityWords ==
    { a * PHY_ANLPAR_100BTX_FDX + b * PHY_ANLPAR_100BTX
        + c * PHY_ANLPAR_10BTX_FDX + d * PHY_ANLPAR_10BTX :
        a \in 0..1, b \in 0..1, c \in 0..1, d \in 0..1 }
\* MAC addresses the driver is configured with (configMAC_0 .. configMAC_5).
MacAddresses == { <<0, 17, 34, 51, 68, 85>>, <<0, 4, 159, 0, 171, 43>> }

(* ------------------------------- events ------------------------------- *)
RxEvents == {"RXF", "RXB"}
TxEvents == {"TXF", "TXB"}
FatalEvents == {"UN", "RL", "LC", "EBERR", "BABT", "BABR", "HBERR"}
\* The fatal events the modelled MAC raises: one of the transmitter, one of the receiver.
FaultsRaised == {"UN", "BABR"}
AllEvents == RxEvents \cup TxEvents \cup FatalEvents \cup {"MII"}
\* MCF_FEC_EIMR_UNMASK_ALL / MCF_FEC_EIR_CLEAR_ALL: every event bit.
MCF_FEC_EIMR_UNMASK_ALL == AllEvents

(* ------------------------------ bit tests ----------------------------- *)
\* x & m # 0 for a single-bit mask m.
HasBit(x, m) == (x \div m) % 2 = 1

VARIABLES
    N,                      \* configNUM_FEC_RX_BUFFERS
    ucMACAddress,           \* the configured station address
    xFECRxDescriptors,      \* receive ring: [0..N-1 -> descriptor]
    xFECTxDescriptors,      \* transmit ring: [0..fecNUM_FEC_TX_BUFFERS-1 -> descriptor]
    uxNextRxBuffer,         \* receive cursor
    uxIndexToBufferOwner,   \* receive slot whose buffer is being transmitted
    uip_buf,                \* the stack's packet buffer pointer
    uip_len,                \* the stack's packet length
    xFECSemaphore,          \* binary semaphore: frames received (0 empty, 1 available)
    xTxSemaphore,           \* binary semaphore: transmit descriptor free
    regs,                   \* FEC registers
    intcUnmasked,           \* FEC vectors enabled in the interrupt controller
    linkSpeed,              \* speed recorded by the driver (0: none recorded)
    hwRxBD,                 \* hardware: receive descriptor the DMA will use next
    phy,                    \* the PHY and its MII channel
    pc,                     \* position of the uIP task
    usData,                 \* vInitFEC's local
    usLen,                  \* usGetFECRxData's local
    last,                   \* the step just taken (history)
    rxOrder,                \* frames stored and frames delivered, numbered (history)
    mii,                    \* an MII access followed poll by poll: its locals and its frame
    polled                  \* what the latest poll returned, and whether the poll under
                            \* way began right after it (history)

vars == << N, ucMACAddress, xFECRxDescriptors, xFECTxDescriptors, uxNextRxBuffer,
           uxIndexToBufferOwner, uip_buf, uip_len, xFECSemaphore, xTxSemaphore,
           regs, intcUnmasked, linkSpeed, hwRxBD, phy, pc, usData, usLen, last, rxOrder,
           mii, polled >>

ringVars == << xFECRxDescriptors, xFECTxDescriptors, uxNextRxBuffer, uxIndexToBufferOwner >>
semVars == << xFECSemaphore, xTxSemaphore >>
stackVars == << uip_buf, uip_len >>
\* What no step of the driver writes: the configuration, the numbering of frames,
\* the record of an MII access followed poll by poll (vInitFEC's steps make
\* each of their accesses in one step) and the record of the polls.
configVars == << N, ucMACAddress, rxOrder, mii, polled >>

(* ---------------------------- buffer pool ----------------------------- *)
\* First 16-byte aligned address at or after p (the while loops of lines 307-337).
AlignUp(p) == IF (p % 16) = 0 THEN p ELSE p + (16 - (p % 16))
\* Address of ucFECRxBuffers[0] in the model's address space.
ucFECRxBuffersBase == 16
\* The buffer bound to receive descriptor ux (lines 333-345).
RxBufferPointer(ux) == AlignUp(ucFECRxBuffersBase) + ux * configFEC_BUFFER_SIZE

(* ------------------------ prvInitialiseFECBuffers --------------------- *)
TxInitDescriptor(ux) ==
    [ status |-> {"TX_BD_TC"} \cup (IF ux = fecNUM_FEC_TX_BUFFERS - 1 THEN {"TX_BD_W"} ELSE {}),
      data   |-> NULL,
      length |-> 0 ]

\* A variant that puts the wrap marker on the first receive descriptor.
RxInitDescriptor_WrapOnFirst(ux) ==
    [ status |-> {"RX_BD_E"} \cup (IF ux = 0 THEN {"RX_BD_W"} ELSE {}),
      data   |-> RxBufferPointer(ux),
      length |-> configFEC_BUFFER_SIZE ]

RxInitDescriptor(ux) ==
    [ status |-> {"RX_BD_E"} \cup (IF ux = N - 1 THEN {"RX_BD_W"} ELSE {}),
      data   |-> RxBufferPointer(ux),
      length |-> configFEC_BUFFER_SIZE ]

InitialTxRing == [ ux \in 0..(fecNUM_FEC_TX_BUFFERS - 1) |-> TxInitDescriptor(ux) ]
InitialRxRing == [ ux \in 0..(N - 1) |-> RxInitDescriptor(ux) ]

\* The ring state prvInitialiseFECBuffers leaves; uxIndexToBufferOwner is not written.
prvInitialiseFECBuffers ==
    /\ xFECTxDescriptors' = InitialTxRing
    /\ xFECRxDescriptors' = InitialRxRing
    /\ uxNextRxBuffer' = 0

(* ------------------------------ registers ----------------------------- *)
\* Writing MCF_FEC_ECR_RESET: the FEC stops, its DMA engines go idle and
\* restart from the first descriptor of each ring once re-enabled.
WriteEcrReset(r) == [ r EXCEPT !.ECR = "RESET", !.RDAR = FALSE, !.TDAR = FALSE ]

\* A variant that resets the FEC and does not restart it.
ResetRegs_NoRestart(r) == WriteEcrReset(r)

\* A variant in which the reset also returns the duplex settings to their reset values.
ResetRegs_DuplexLost(r) ==
    [ WriteEcrReset(r) EXCEPT !.ECR = "ETHER_EN", !.RDAR = TRUE, !.TCR = {}, !.RCR = {} ]

\* The register part of prvResetFEC (lines 547-557).
ResetRegs(r) == [ WriteEcrReset(r) EXCEPT !.ECR = "ETHER_EN", !.RDAR = TRUE ]

(* ------------------------------- MII ---------------------------------- *)
RECURSIVE MiiPollLoop(_, _)
\* The value of `timeout` when the polling loop of fec_mii_read / fec_mii_write
\* ends, MCF_FEC_EIR_MII being found set from poll number doneAt on.
MiiPollLoop(timeout, doneAt) ==
    IF timeout < fecMAX_POLLS
    THEN IF doneAt <= timeout THEN timeout ELSE MiiPollLoop(timeout + 1, doneAt)
    ELSE timeout

\* A variant that stores the management-frame register on a time-out too.
fec_mii_read_StoresOnTimeout(r, doneAt, mmfr, data) ==
    LET timeout == MiiPollLoop(0, doneAt)
    IN  [ iReturn |-> IF timeout = fecMAX_POLLS THEN 0 ELSE 1,
          data    |-> mmfr % 65536,
          polls   |-> timeout,
          regs    |-> [ r EXCEPT !.EIR = r.EIR \ {"MII"} ] ]

\* fec_mii_read: r the registers on entry, mmfr the value the PHY delivers,
\* data the caller's *data on entry.
fec_mii_read(r, doneAt, mmfr, data) ==
    LET eimr    == r.EIMR
        timeout == MiiPollLoop(0, doneAt)
    IN  [ iReturn |-> IF timeout = fecMAX_POLLS THEN 0 ELSE 1,
          data    |-> IF timeout = fecMAX_POLLS THEN data ELSE mmfr % 65536,
          polls   |-> timeout,
          regs    |-> [ r EXCEPT !.EIR = r.EIR \ {"MII"}, !.EIMR = eimr ] ]

\* fec_mii_write.
fec_mii_write(r, doneAt) ==
    LET eimr    == r.EIMR
        timeout == MiiPollLoop(0, doneAt)
    IN  [ iReturn |-> IF timeout = fecMAX_POLLS THEN 0 ELSE 1,
          polls   |-> timeout,
          regs    |-> [ r EXCEPT !.EIR = r.EIR \ {"MII"}, !.EIMR = eimr ] ]

\* A count that never runs out: a PHY that never answers (idPolls), an MII
\* channel that never completes an access (miiFails).
Never == -1

\* Polls after which the MII channel may complete an access; fecMAX_POLLS: never
\* within the polling loop (allowed while the PHY has time-outs left, the only
\* outcome on a channel that never completes).
MiiCompletions ==
    IF phy.miiFails = Never THEN {fecMAX_POLLS}
    ELSE {0, 1} \cup (IF phy.miiFails > 0 THEN {fecMAX_POLLS} ELSE {})
PhyAfterAccess(doneAt) ==
    IF doneAt >= fecMAX_POLLS /\ phy.miiFails # Never
    THEN [ phy EXCEPT !.miiFails = @ - 1, !.miiTimeouts = @ + 1 ]
    ELSE phy


(* --------------------------- address filter --------------------------- *)
\* A 32-bit word is the set of the positions (0..31) of its one bits.
\* The word whose upper and lower 16-bit halves are hi and lo.
Word32(hi, lo) ==
    { b \in 0..15 : HasBit(lo, 2 ^ b) } \cup { b + 16 : b \in { c \in 0..15 : HasBit(hi, 2 ^ c) } }
\* 0xFFFFFFFF and 0xEDB88320.
CRC_SEED == Word32(65535, 65535)
CRC_POLY == Word32(60856, 33568)
\* w >> 1 and a ^ b on such words.
ShiftRight1(w) == { b - 1 : b \in w \ {0} }
Xor32(a, b) == (a \ b) \cup (b \ a)

RECURSIVE HashBits_XorBeforeShift(_, _, _)
\* A variant that applies the polynomial before the shift.
HashBits_XorBeforeShift(crc, byte, j) ==
    IF j = 8 THEN crc
    ELSE IF ((byte % 2) = 1) # (0 \in crc)
         THEN HashBits_XorBeforeShift(ShiftRight1(Xor32(crc, CRC_POLY)), byte \div 2, j + 1)
         ELSE HashBits_XorBeforeShift(ShiftRight1(crc), byte \div 2, j + 1)

RECURSIVE HashBits(_, _, _)
\* The inner loop of fec_hash_address (lines 246-259), from bit j of one byte.
HashBits(crc, byte, j) ==
    IF j = 8 THEN crc
    ELSE IF ((byte % 2) = 1) # (0 \in crc)
         THEN HashBits(Xor32(ShiftRight1(crc), CRC_POLY), byte \div 2, j + 1)
         ELSE HashBits(ShiftRight1(crc), byte \div 2, j + 1)

RECURSIVE HashBytes(_, _, _)
\* The outer loop of fec_hash_address (lines 243-260); addr is 1-indexed here.
HashBytes(crc, addr, i) ==
    IF i = 6 THEN crc ELSE HashBytes(HashBits(crc, addr[i + 1], 0), addr, i + 1)

RECURSIVE SumPow2(_)
\* The number whose one bits are at the positions in s.
SumPow2(s) == IF s = {} THEN 0 ELSE LET b == CHOOSE x \in s : TRUE IN (2 ^ b) + SumPow2(s \ {b})

\* (unsigned portCHAR)(crc >> 26)
fec_hash_address(addr) == SumPow2({ b - 26 : b \in { c \in HashBytes(CRC_SEED, addr, 0) : c >= 26 } })

\* The addresses fec_hash_address is applied to: the address of the specification's
\* example and 71 others that differ from it in one to four bytes.
HashAddresses ==
    { <<0, 17, 34, 51, 68, 85>> } \cup
    { <<a, b, 34, 51, c, d>> : a \in {0, 1, 255}, b \in {17, 128},
                               c \in {68, 0, 255}, d \in {85, 0, 170, 255} }

\* fec_hash_address over the station addresses of the model, evaluated once.
HashOfAddress == [ a \in MacAddresses \cup HashAddresses |-> fec_hash_address(a) ]

\* A variant that sets the hash bit in the other half of the bitmap.
fec_set_address_OtherHalf(r, pa) ==
    LET crc == HashOfAddress[pa]
    IN  [ r EXCEPT
            !.PALR = << pa[1], pa[2], pa[3], pa[4] >>,
            !.PAUR = << pa[5], pa[6], 0, 0 >>,
            !.IALR = IF crc >= 32 THEN @ \cup {crc - 32} ELSE @,
            !.IAUR = IF crc >= 32 THEN @ ELSE @ \cup {crc} ]

\* fec_set_address: the registers after it. PALR and PAUR are written as their
\* four bytes, most significant first; IALR and IAUR are sets of bit numbers.
fec_set_address(r, pa) ==
    LET crc == HashOfAddress[pa]
    IN  [ r EXCEPT
            !.PALR = << pa[1], pa[2], pa[3], pa[4] >>,
            !.PAUR = << pa[5], pa[6], 0, 0 >>,
            !.IAUR = IF crc >= 32 THEN @ \cup {crc - 32} ELSE @,
            !.IALR = IF crc >= 32 THEN @ ELSE @ \cup {crc} ]

(* ----------------------------- link decoding -------------------------- *)
\* Line 444: the condition of the speed branch.
SpeedIs100(word) == HasBit(word, PHY_ANLPAR_100BTX_FDX) \/ HasBit(word, PHY_ANLPAR_100BTX)
\* A variant that tests the 100BASE-TX half-duplex bit in place of the 10BASE-T
\* full-duplex bit.
DuplexIsFull_WrongBit(word) == HasBit(word, PHY_ANLPAR_100BTX_FDX) \/ HasBit(word, PHY_ANLPAR_100BTX)

\* Line 453: the condition of the duplex branch.
DuplexIsFull(word) == HasBit(word, PHY_ANLPAR_100BTX_FDX) \/ HasBit(word, PHY_ANLPAR_10BTX_FDX)

\* Lines 453-462: the duplex bits written to RCR and TCR.
SetDuplex(r, word) ==
    IF DuplexIsFull(word)
    THEN [ r EXCEPT !.RCR = @ \ {"DRT"}, !.TCR = @ \cup {"FDEN"} ]
    ELSE [ r EXCEPT !.RCR = @ \cup {"DRT"}, !.TCR = @ \ {"FDEN"} ]

(* ------------------------------ history ------------------------------- *)
\* op: the step; ret: the value a returning function gives its caller (0 for a
\* void function); ev: the events vFEC_ISR handled, or the path a function took.
Last(op, ret, ev) == [ op |-> op, ret |-> ret, ev |-> ev ]

(* -------------------------------- Init -------------------------------- *)
ResetValueRegs ==
    [ ECR |-> "DISABLED", EIR |-> {}, EIMR |-> {}, RDAR |-> FALSE, TDAR |-> FALSE,
      RCR |-> {}, TCR |-> {}, PALR |-> <<0, 0, 0, 0>>, PAUR |-> <<0, 0, 0, 0>>,
      IALR |-> {}, IAUR |-> {}, GALR |-> {}, GAUR |-> {} ]

\* No MII access in progress.  at: position in fec_mii_read / fec_mii_write;
\* timeout, eimr: their locals; polls, delays: tests of MCF_FEC_EIR_MII and calls
\* of vTaskDelay made; seen: a test found the flag set; inFlight, mmfr, doneAt:
\* the management frame, the register value it left, the polls made before it
\* completed; entryRegs, entryData: registers and *data when the call began.
NoMiiAccess ==
    [ at |-> "out", op |-> "none", timeout |-> 0, eimr |-> {}, polls |-> 0, delays |-> 0,
      seen |-> FALSE, inFlight |-> FALSE, mmfr |-> 0, doneAt |-> fecMAX_POLLS,
      entryRegs |-> ResetValueRegs, entryData |-> 0 ]

\* No poll has returned yet.  len, buf: what the latest poll returned and the
\* uip_buf it left; clean: no step came between the two statements of that
\* poll; chained: the poll under way began in the state a clean poll returned
\* in; twice: the latest poll was chained and clean.
NoPoll == [ len |-> 0, buf |-> NULL, clean |-> FALSE, chained |-> FALSE, twice |-> FALSE ]

\* The state before vInitFEC: statics zero-initialised, descriptor pointers not yet set.
InitCommon ==
    /\ xFECRxDescriptors = [ ux \in 0..(N - 1) |-> [ status |-> {}, data |-> NULL, length |-> 0 ] ]
    /\ xFECTxDescriptors = [ ux \in 0..(fecNUM_FEC_TX_BUFFERS - 1) |->
                                [ status |-> {}, data |-> NULL, length |-> 0 ] ]
    /\ uxNextRxBuffer = 0
    /\ uxIndexToBufferOwner = 0
    /\ uip_buf = NULL
    /\ uip_len = 0
    /\ xFECSemaphore = 0
    /\ xTxSemaphore = 0
    /\ regs = ResetValueRegs
    /\ intcUnmasked = FALSE
    /\ linkSpeed = 0
    /\ hwRxBD = 0
    /\ pc = "ENTRY"
    /\ usData = 0
    /\ usLen = 0
    /\ last = Last("none", 0, {})
    /\ rxOrder = [ stored |-> 0, slot |-> [ ux \in 0..(N - 1) |-> 0 ], delivered |-> 0,
                   before |-> 0 ]
    /\ mii = NoMiiAccess
    /\ polled = NoPoll

\* The PHY: its identification value, the reads of the identification register
\* still answered with PHY_ID_ABSENT, the reads of the status register still
\* answered without PHY_BMSR_AN_COMPLETE, its link-partner ability word and the
\* MII accesses it may still let time out; idDelay, anDelay and miiTimeouts keep
\* the two delays it started with and the time-outs that happened.
PhyStates(ids, polls, words, fails) ==
    { [ id |-> i, idPolls |-> p, idDelay |-> p, anPolls |-> q, anDelay |-> q,
        anlpar |-> w, miiFails |-> f, miiTimeouts |-> 0 ] :
        i \in ids, p \in polls, q \in polls, w \in words, f \in fails }

\* Every ring depth, one MAC address, a PHY that answers at once with either of
\* two ability words (100BASE-TX full duplex; 10BASE-T half duplex only).
Init ==
    /\ N \in 1..MaxRxBuffers
    /\ ucMACAddress = <<0, 17, 34, 51, 68, 85>>
    /\ phy \in PhyStates({1}, {0}, {PHY_ANLPAR_100BTX_FDX, PHY_ANLPAR_10BTX}, {0})
    /\ InitCommon

\* Bring-up against every PHY behaviour within the bounds.
InitBringUp ==
    /\ N = 1
    /\ ucMACAddress \in MacAddresses
    /\ phy \in PhyStates(PhyIdValues, 0..MaxPhyPolls, AbilityWords, 0..MaxMiiTimeouts)
    /\ InitCommon

(* ------------------------------ vInitFEC ------------------------------ *)
steadyVars == << uip_buf, uip_len, hwRxBD, usLen, uxIndexToBufferOwner >>

\* Lines 365-374: semaphores created (a binary semaphore is created available), rings built.
vInitFEC_Entry ==
    /\ pc = "ENTRY"
    /\ xFECSemaphore' = 1
    /\ xTxSemaphore' = 1
    /\ prvInitialiseFECBuffers
    /\ pc' = "RESET"
    /\ last' = Last("vInitFEC_Entry", 0, {})
    /\ UNCHANGED << configVars, steadyVars, regs, intcUnmasked, linkSpeed, phy, usData >>

\* Lines 376-412: MAC reset, MII speed, pins, EPHY enable.
vInitFEC_Reset ==
    /\ pc = "RESET"
    /\ regs' = WriteEcrReset(regs)
    /\ pc' = "WAIT_SETTLE"
    /\ last' = Last("vInitFEC_Reset", 0, {})
    /\ UNCHANGED << configVars, steadyVars, xFECRxDescriptors, xFECTxDescriptors,
                    uxNextRxBuffer, semVars, intcUnmasked, linkSpeed, phy, usData >>

\* Line 415.
vInitFEC_Settle ==
    /\ pc = "WAIT_SETTLE"
    /\ pc' = "PHY_PRESENT_CHECK"
    /\ last' = Last("vInitFEC_Settle", 0, {})
    /\ UNCHANGED << configVars, steadyVars, xFECRxDescriptors, xFECTxDescriptors,
                    uxNextRxBuffer, semVars, regs, intcUnmasked, linkSpeed, phy, usData >>

\* What the PHY answers to a read of PHY_PHYIDR1.
PhyIdRegister == IF phy.idPolls # 0 THEN PHY_ID_ABSENT ELSE phy.id
\* What the PHY answers to a read of PHY_BMSR.
PhyStatusRegister == IF phy.anPolls > 0 THEN 0 ELSE PHY_BMSR_AN_COMPLETE

\* Lines 418-424: one iteration of the PHY presence loop.
vInitFEC_PhyPresent ==
    /\ pc = "PHY_PRESENT_CHECK"
    /\ \E doneAt \in MiiCompletions :
         LET rd == fec_mii_read(regs, doneAt, PhyIdRegister, 0)
         IN  /\ regs' = rd.regs
             /\ usData' = rd.data
             /\ phy' = [ PhyAfterAccess(doneAt) EXCEPT
                           !.idPolls = IF rd.iReturn = 1 /\ @ > 0 THEN @ - 1 ELSE @ ]
             /\ pc' = IF rd.data = PHY_ID_ABSENT THEN "PHY_PRESENT_CHECK" ELSE "AUTONEG_START"
             /\ last' = Last("vInitFEC_PhyPresent", rd.iReturn, {})
    /\ UNCHANGED << configVars, steadyVars, xFECRxDescriptors, xFECTxDescriptors,
                    uxNextRxBuffer, semVars, intcUnmasked, linkSpeed >>

\* Line 429.
vInitFEC_AutonegStart ==
    /\ pc = "AUTONEG_START"
    /\ \E doneAt \in MiiCompletions :
         LET wr == fec_mii_write(regs, doneAt)
         IN  /\ regs' = wr.regs
             /\ phy' = PhyAfterAccess(doneAt)
             /\ last' = Last("vInitFEC_AutonegStart", wr.iReturn, {})
    /\ pc' = "AUTONEG_WAIT"
    /\ UNCHANGED << configVars, steadyVars, xFECRxDescriptors, xFECTxDescriptors,
                    uxNextRxBuffer, semVars, intcUnmasked, linkSpeed, usData >>

\* Lines 432-437: one iteration of the wait for negotiation to complete.
vInitFEC_AutonegWait ==
    /\ pc = "AUTONEG_WAIT"
    /\ \E doneAt \in MiiCompletions :
         LET rd == fec_mii_read(regs, doneAt, PhyStatusRegister, usData)
         IN  /\ regs' = rd.regs
             /\ usData' = rd.data
             /\ phy' = [ PhyAfterAccess(doneAt) EXCEPT
                           !.anPolls = IF rd.iReturn = 1 /\ @ > 0 THEN @ - 1 ELSE @ ]
             /\ pc' = IF HasBit(rd.data, PHY_BMSR_AN_COMPLETE) THEN "RESULT_READ"
                      ELSE "AUTONEG_WAIT"
             /\ last' = Last("vInitFEC_AutonegWait", rd.iReturn, {})
    /\ UNCHANGED << configVars, steadyVars, xFECRxDescriptors, xFECTxDescriptors,
                    uxNextRxBuffer, semVars, intcUnmasked, linkSpeed >>

\* Line 442.
vInitFEC_ResultRead ==
    /\ pc = "RESULT_READ"
    /\ \E doneAt \in MiiCompletions :
         LET rd == fec_mii_read(regs, doneAt, phy.anlpar, usData)
         IN  /\ regs' = rd.regs
             /\ usData' = rd.data
             /\ phy' = PhyAfterAccess(doneAt)
             /\ last' = Last("vInitFEC_ResultRead", rd.iReturn, {})
    /\ pc' = "LINK_DECODE"
    /\ UNCHANGED << configVars, steadyVars, xFECRxDescriptors, xFECTxDescriptors,
                    uxNextRxBuffer, semVars, intcUnmasked, linkSpeed >>

\* Lines 444-462: both branches of the speed test are empty; the duplex test
\* programs RCR and TCR.
vInitFEC_LinkDecode ==
    /\ pc = "LINK_DECODE"
    /\ IF SpeedIs100(usData) THEN linkSpeed' = linkSpeed ELSE linkSpeed' = linkSpeed
    /\ regs' = SetDuplex(regs, usData)
    /\ pc' = "FILTER"
    /\ last' = Last("vInitFEC_LinkDecode", 0, {})
    /\ UNCHANGED << configVars, steadyVars, xFECRxDescriptors, xFECTxDescriptors,
                    uxNextRxBuffer, semVars, intcUnmasked, phy, usData >>

\* Lines 464-471.
vInitFEC_Filter ==
    /\ pc = "FILTER"
    /\ regs' = fec_set_address([ regs EXCEPT !.IALR = {}, !.IAUR = {}, !.GALR = {}, !.GAUR = {} ],
                               ucMACAddress)
    /\ pc' = "REGS"
    /\ last' = Last("vInitFEC_Filter", 0, {})
    /\ UNCHANGED << configVars, steadyVars, xFECRxDescriptors, xFECTxDescriptors,
                    uxNextRxBuffer, semVars, intcUnmasked, linkSpeed, phy, usData >>

\* Lines 473-497: EIMR and EIR written with all ones, RCR assigned afresh.
vInitFEC_Regs ==
    /\ pc = "REGS"
    /\ regs' = [ regs EXCEPT !.EIMR = AllEvents, !.EIR = {},
                             !.RCR = {"MAX_FL", "FCE", "MII_MODE"} ]
    /\ pc' = "ENABLE"
    /\ last' = Last("vInitFEC_Regs", 0, {})
    /\ UNCHANGED << configVars, steadyVars, xFECRxDescriptors, xFECTxDescriptors,
                    uxNextRxBuffer, semVars, intcUnmasked, linkSpeed, phy, usData >>

\* A variant that leaves every FEC event masked.
prvEnableFECInterrupts_Masked(r) == [ r EXCEPT !.EIR = {}, !.EIMR = {} ]

\* prvEnableFECInterrupts (lines 506-532): the registers after it.
prvEnableFECInterrupts(r) == [ r EXCEPT !.EIR = {}, !.EIMR = MCF_FEC_EIMR_UNMASK_ALL ]

\* Lines 499-502; vInitFEC returns and its local goes out of scope.
vInitFEC_Enable ==
    /\ pc = "ENABLE"
    /\ intcUnmasked' = TRUE
    /\ regs' = [ prvEnableFECInterrupts(regs) EXCEPT !.ECR = "ETHER_EN", !.RDAR = TRUE ]
    /\ usData' = 0
    /\ pc' = "idle"
    /\ last' = Last("vInitFEC_Enable", 0, {})
    /\ UNCHANGED << configVars, steadyVars, xFECRxDescriptors, xFECTxDescriptors,
                    uxNextRxBuffer, semVars, linkSpeed, phy >>

vInitFEC ==
    \/ vInitFEC_Entry
    \/ vInitFEC_Reset
    \/ vInitFEC_Settle
    \/ vInitFEC_PhyPresent
    \/ vInitFEC_AutonegStart
    \/ vInitFEC_AutonegWait
    \/ vInitFEC_ResultRead
    \/ vInitFEC_LinkDecode
    \/ vInitFEC_Filter
    \/ vInitFEC_Regs
    \/ vInitFEC_Enable

BringUpPcs == { "ENTRY", "RESET", "WAIT_SETTLE", "PHY_PRESENT_CHECK", "AUTONEG_START",
                "AUTONEG_WAIT", "RESULT_READ", "LINK_DECODE", "FILTER", "REGS", "ENABLE" }
\* vInitFEC has returned.
Configured == pc \notin BringUpPcs

SpecBringUp == InitBringUp /\ [][vInitFEC]_vars /\ WF_vars(vInitFEC)


(* ------------------------- interrupts and tasks ----------------------- *)
\* MCF_FEC_EIR & MCF_FEC_EIMR
PendingEvents == regs.EIR \cap regs.EIMR
\* An enabled FEC event is pending: vFEC_ISR runs before the task's next statement.
IsrPending == intcUnmasked /\ PendingEvents # {}
\* The uIP task executes its next statement.
TaskRuns == ~IsrPending

bringUpVars == << intcUnmasked, linkSpeed, phy, usData >>

\* A variant whose wrap test is off by one.
NextRxIndex_OffByOne(ux) == IF ux + 1 > N THEN 0 ELSE ux + 1

\* uxNextRxBuffer++ followed by the wrap test (lines 592-596 and 628-632).
NextRxIndex(ux) == IF ux + 1 >= N THEN 0 ELSE ux + 1

\* A variant that does not test the ownership bit.
FrameAvailable_LengthOnly(len, bd) == len # 0

\* The test of line 574 on descriptor bd with the length read at line 572.
FrameAvailable(len, bd) == (len # 0) /\ ("RX_BD_E" \notin bd.status)

(* ---------------------------- usGetFECRxData -------------------------- *)
\* Line 572: the length is read first.
usGetFECRxData_ReadLength ==
    /\ pc = "idle"
    /\ TaskRuns
    /\ usLen' = xFECRxDescriptors[uxNextRxBuffer].length
    /\ pc' = "get574"
    /\ last' = Last("usGetFECRxData_ReadLength", 0, {})
    /\ UNCHANGED << configVars, ringVars, stackVars, semVars, regs, hwRxBD, bringUpVars >>

\* Lines 574-583: the status test and the return; the caller keeps the returned
\* length in uip_len and holds the frame when it is not zero.
usGetFECRxData_Return ==
    /\ pc = "get574"
    /\ TaskRuns
    /\ IF FrameAvailable(usLen, xFECRxDescriptors[uxNextRxBuffer])
       THEN /\ uip_buf' = xFECRxDescriptors[uxNextRxBuffer].data
            /\ uip_len' = usLen
            /\ pc' = "holding"
            /\ last' = Last("usGetFECRxData", usLen, {})
       ELSE /\ uip_buf' = uip_buf
            /\ uip_len' = 0
            /\ pc' = "idle"
            /\ last' = Last("usGetFECRxData", 0, {})
    /\ usLen' = 0
    /\ UNCHANGED << configVars, ringVars, semVars, regs, hwRxBD, bringUpVars >>

(* ----------------------------- vDiscardRxData ------------------------- *)
\* Lines 590-591, called by the task holding a frame or by vSendBufferToFEC (line 640).
\* A variant that frees the descriptor and does not write the receive doorbell.
vDiscardRxData_Free_NoDoorbell ==
    /\ pc \in {"holding", "drop590"}
    /\ TaskRuns
    /\ xFECRxDescriptors' = [ xFECRxDescriptors EXCEPT
                                ![uxNextRxBuffer].status = @ \cup {"RX_BD_E"} ]
    /\ pc' = IF pc = "holding" THEN "dis592" ELSE "drop592"
    /\ last' = Last("vDiscardRxData_Free", 0, {})
    /\ UNCHANGED << configVars, xFECTxDescriptors, uxNextRxBuffer, uxIndexToBufferOwner,
                    stackVars, semVars, regs, hwRxBD, usLen, bringUpVars >>

vDiscardRxData_Free ==
    /\ pc \in {"holding", "drop590"}
    /\ TaskRuns
    /\ xFECRxDescriptors' = [ xFECRxDescriptors EXCEPT
                                ![uxNextRxBuffer].status = @ \cup {"RX_BD_E"} ]
    /\ regs' = [ regs EXCEPT !.RDAR = TRUE ]
    /\ pc' = IF pc = "holding" THEN "dis592" ELSE "drop592"
    /\ last' = Last("vDiscardRxData_Free", 0, {})
    /\ UNCHANGED << configVars, xFECTxDescriptors, uxNextRxBuffer, uxIndexToBufferOwner,
                    stackVars, semVars, hwRxBD, usLen, bringUpVars >>

\* Lines 592-596; vDiscardRxData returns, and with it vSendBufferToFEC when it
\* was the caller.
vDiscardRxData_Advance ==
    /\ pc \in {"dis592", "drop592"}
    /\ TaskRuns
    /\ uxNextRxBuffer' = NextRxIndex(uxNextRxBuffer)
    /\ pc' = "idle"
    /\ last' = IF pc = "dis592" THEN Last("vDiscardRxData", 0, {})
               ELSE Last("vSendBufferToFEC", 0, {"dropped"})
    /\ UNCHANGED << configVars, xFECRxDescriptors, xFECTxDescriptors, uxIndexToBufferOwner,
                    stackVars, semVars, regs, hwRxBD, usLen, bringUpVars >>

(* ---------------------------- vSendBufferToFEC ------------------------ *)
\* A variant that proceeds without taking xTxSemaphore.
vSendBufferToFEC_Take_TokenKept ==
    /\ pc = "holding"
    /\ TaskRuns
    /\ xTxSemaphore = 1
    /\ pc' = "snd606"
    /\ last' = Last("vSendBufferToFEC_Take", 1, {})
    /\ UNCHANGED << configVars, ringVars, stackVars, semVars, regs, hwRxBD, usLen,
                    bringUpVars >>

\* Line 603, the semaphore obtained within fecTX_BUFFER_WAIT.
vSendBufferToFEC_Take ==
    /\ pc = "holding"
    /\ TaskRuns
    /\ xTxSemaphore = 1
    /\ xTxSemaphore' = 0
    /\ pc' = "snd606"
    /\ last' = Last("vSendBufferToFEC_Take", 1, {})
    /\ UNCHANGED << configVars, ringVars, stackVars, xFECSemaphore, regs, hwRxBD, usLen,
                    bringUpVars >>

\* Line 603, the wait timing out: the else branch of line 638 calls vDiscardRxData.
vSendBufferToFEC_Timeout ==
    /\ pc = "holding"
    /\ TaskRuns
    /\ xTxSemaphore = 0
    /\ pc' = "drop590"
    /\ last' = Last("vSendBufferToFEC_Timeout", 0, {})
    /\ UNCHANGED << configVars, ringVars, stackVars, semVars, regs, hwRxBD, usLen, bringUpVars >>

\* Line 606.
vSendBufferToFEC_CheckBusy ==
    /\ pc = "snd606"
    /\ TaskRuns
    /\ pc' = IF "TX_BD_R" \in xFECTxDescriptors[fecTX_BUFFER_TO_USE].status
             THEN "snd609" ELSE "snd620"
    /\ last' = Last("vSendBufferToFEC_CheckBusy", 0, {})
    /\ UNCHANGED << configVars, ringVars, stackVars, semVars, regs, hwRxBD, usLen, bringUpVars >>

\* Line 609: prvResetFEC( pdFALSE ), one step: it runs inside a critical section.
vSendBufferToFEC_Reset ==
    /\ pc = "snd609"
    /\ TaskRuns
    /\ prvInitialiseFECBuffers
    /\ regs' = ResetRegs(regs)
    /\ hwRxBD' = 0
    /\ pc' = "snd613"
    /\ last' = Last("prvResetFEC", 0, {})
    /\ UNCHANGED << configVars, uxIndexToBufferOwner, stackVars, semVars, usLen, bringUpVars >>

\* A variant that returns without giving xTxSemaphore back.
vSendBufferToFEC_GiveBack_Kept ==
    /\ pc = "snd613"
    /\ TaskRuns
    /\ pc' = "idle"
    /\ last' = Last("vSendBufferToFEC", 0, {"reset"})
    /\ UNCHANGED << configVars, ringVars, stackVars, semVars, regs, hwRxBD, usLen,
                    bringUpVars >>

\* Line 613; the submit returns busy.
vSendBufferToFEC_GiveBack ==
    /\ pc = "snd613"
    /\ TaskRuns
    /\ xTxSemaphore' = 1
    /\ pc' = "idle"
    /\ last' = Last("vSendBufferToFEC", 0, {"reset"})
    /\ UNCHANGED << configVars, ringVars, stackVars, xFECSemaphore, regs, hwRxBD, usLen,
                    bringUpVars >>

\* Line 620.
vSendBufferToFEC_SetLength ==
    /\ pc = "snd620"
    /\ TaskRuns
    /\ xFECTxDescriptors' = [ xFECTxDescriptors EXCEPT ![fecTX_BUFFER_TO_USE].length = uip_len ]
    /\ pc' = "snd621"
    /\ last' = Last("vSendBufferToFEC_SetLength", 0, {})
    /\ UNCHANGED << configVars, xFECRxDescriptors, uxNextRxBuffer, uxIndexToBufferOwner,
                    stackVars, semVars, regs, hwRxBD, usLen, bringUpVars >>

\* Line 621.
vSendBufferToFEC_SetReady ==
    /\ pc = "snd621"
    /\ TaskRuns
    /\ xFECTxDescriptors' = [ xFECTxDescriptors EXCEPT
                                ![fecTX_BUFFER_TO_USE].status = @ \cup {"TX_BD_R", "TX_BD_L"} ]
    /\ pc' = "snd622"
    /\ last' = Last("vSendBufferToFEC_SetReady", 0, {})
    /\ UNCHANGED << configVars, xFECRxDescriptors, uxNextRxBuffer, uxIndexToBufferOwner,
                    stackVars, semVars, regs, hwRxBD, usLen, bringUpVars >>

\* Line 622.
vSendBufferToFEC_SetData ==
    /\ pc = "snd622"
    /\ TaskRuns
    /\ xFECTxDescriptors' = [ xFECTxDescriptors EXCEPT ![fecTX_BUFFER_TO_USE].data = uip_buf ]
    /\ pc' = "snd625"
    /\ last' = Last("vSendBufferToFEC_SetData", 0, {})
    /\ UNCHANGED << configVars, xFECRxDescriptors, uxNextRxBuffer, uxIndexToBufferOwner,
                    stackVars, semVars, regs, hwRxBD, usLen, bringUpVars >>

\* Line 625.
vSendBufferToFEC_SetOwner ==
    /\ pc = "snd625"
    /\ TaskRuns
    /\ uxIndexToBufferOwner' = uxNextRxBuffer
    /\ pc' = "snd628"
    /\ last' = Last("vSendBufferToFEC_SetOwner", 0, {})
    /\ UNCHANGED << configVars, xFECRxDescriptors, xFECTxDescriptors, uxNextRxBuffer,
                    stackVars, semVars, regs, hwRxBD, usLen, bringUpVars >>

\* Lines 628-632.
vSendBufferToFEC_Advance ==
    /\ pc = "snd628"
    /\ TaskRuns
    /\ uxNextRxBuffer' = NextRxIndex(uxNextRxBuffer)
    /\ pc' = "snd635"
    /\ last' = Last("vSendBufferToFEC_Advance", 0, {})
    /\ UNCHANGED << configVars, xFECRxDescriptors, xFECTxDescriptors, uxIndexToBufferOwner,
                    stackVars, semVars, regs, hwRxBD, usLen, bringUpVars >>

\* Line 635; the submit returns accepted.
vSendBufferToFEC_Doorbell ==
    /\ pc = "snd635"
    /\ TaskRuns
    /\ regs' = [ regs EXCEPT !.TDAR = TRUE ]
    /\ pc' = "idle"
    /\ last' = Last("vSendBufferToFEC", 0, {"accepted"})
    /\ UNCHANGED << configVars, ringVars, stackVars, semVars, hwRxBD, usLen, bringUpVars >>

(* -------------------------------- vFEC_ISR ---------------------------- *)
\* Line 659: the fatal events.
\* A variant that does not treat the heartbeat error as fatal.
IsFatal_NoHeartbeat(ulEvent) == ulEvent \cap (FatalEvents \ {"HBERR"}) # {}
IsFatal(ulEvent) == ulEvent \cap FatalEvents # {}
\* Line 653 and line 665.
IsReceive(ulEvent) == ulEvent \cap RxEvents # {}
IsTransmitDone(ulEvent) == ulEvent \cap TxEvents # {}

\* The receive ring after the fatal branch (line 662), then the transmit-complete
\* branch (line 669).
IsrRxRing(ulEvent) ==
    LET afterReset == IF IsFatal(ulEvent) THEN InitialRxRing ELSE xFECRxDescriptors
    IN  IF IsTransmitDone(ulEvent)
        THEN [ afterReset EXCEPT ![uxIndexToBufferOwner].status = @ \cup {"RX_BD_E"} ]
        ELSE afterReset

\* The registers after the handler: EIR written with ulEvent (line 651),
\* prvResetFEC( pdTRUE ) (line 662), the receive doorbell (line 670).
IsrRegs(ulEvent) ==
    LET cleared    == [ regs EXCEPT !.EIR = @ \ ulEvent ]
        afterReset == IF IsFatal(ulEvent) THEN ResetRegs(cleared) ELSE cleared
    IN  IF IsTransmitDone(ulEvent) THEN [ afterReset EXCEPT !.RDAR = TRUE ] ELSE afterReset

vFEC_ISR ==
    /\ IsrPending
    /\ LET ulEvent == PendingEvents
       IN  /\ regs' = IsrRegs(ulEvent)
           /\ xFECSemaphore' = IF IsReceive(ulEvent) THEN 1 ELSE xFECSemaphore
           /\ xFECRxDescriptors' = IsrRxRing(ulEvent)
           /\ xFECTxDescriptors' = IF IsFatal(ulEvent) THEN InitialTxRing ELSE xFECTxDescriptors
           /\ uxNextRxBuffer' = IF IsFatal(ulEvent) THEN 0 ELSE uxNextRxBuffer
           /\ hwRxBD' = IF IsFatal(ulEvent) THEN 0 ELSE hwRxBD
           /\ xTxSemaphore' = IF IsTransmitDone(ulEvent) THEN 1 ELSE xTxSemaphore
           /\ last' = Last("vFEC_ISR", 0, ulEvent)
    /\ UNCHANGED << configVars, uxIndexToBufferOwner, stackVars, pc, usLen, bringUpVars >>

(* ------------------------------- hardware ----------------------------- *)
FecEnabled == regs.ECR = "ETHER_EN"

\* The descriptor after the one the receive DMA is at: the wrap bit ends the ring.
HwNextRxBD == IF "RX_BD_W" \in xFECRxDescriptors[hwRxBD].status THEN 0 ELSE hwRxBD + 1

\* Receive DMA stores a frame in the descriptor it is at, if that one is empty, moves
\* to the next descriptor and goes idle (RDAR clear) if that one is not empty.
HwReceive ==
    /\ FecEnabled
    /\ regs.RDAR
    /\ "RX_BD_E" \in xFECRxDescriptors[hwRxBD].status
    /\ \E len \in FrameLengths :
         xFECRxDescriptors' = [ xFECRxDescriptors EXCEPT
                                  ![hwRxBD].status = @ \ {"RX_BD_E"},
                                  ![hwRxBD].length = len ]
    /\ hwRxBD' = HwNextRxBD
    /\ regs' = [ regs EXCEPT !.EIR = @ \cup {"RXF"},
                             !.RDAR = (hwRxBD' # hwRxBD)
                                        /\ "RX_BD_E" \in xFECRxDescriptors[hwRxBD'].status ]
    /\ last' = Last("hardware", 0, {})
    /\ UNCHANGED << configVars, xFECTxDescriptors, uxNextRxBuffer, uxIndexToBufferOwner,
                    stackVars, semVars, pc, usLen, bringUpVars >>

\* Receive DMA finds its descriptor not empty and goes idle until RDAR is written.
HwReceiveIdle ==
    /\ FecEnabled
    /\ regs.RDAR
    /\ "RX_BD_E" \notin xFECRxDescriptors[hwRxBD].status
    /\ regs' = [ regs EXCEPT !.RDAR = FALSE ]
    /\ last' = Last("hardware", 0, {})
    /\ UNCHANGED << configVars, ringVars, stackVars, semVars, hwRxBD, pc, usLen, bringUpVars >>

\* Transmit DMA sends the frame of a ready descriptor, reports it, and goes idle
\* (TDAR clear): the one descriptor of the ring is no longer ready.
HwTransmit ==
    /\ FecEnabled
    /\ regs.TDAR
    /\ "TX_BD_R" \in xFECTxDescriptors[fecTX_BUFFER_TO_USE].status
    /\ xFECTxDescriptors' = [ xFECTxDescriptors EXCEPT
                                ![fecTX_BUFFER_TO_USE].status = @ \ {"TX_BD_R"} ]
    /\ regs' = [ regs EXCEPT !.EIR = @ \cup {"TXB", "TXF"}, !.TDAR = FALSE ]
    /\ last' = Last("hardware", 0, {})
    /\ UNCHANGED << configVars, xFECRxDescriptors, uxNextRxBuffer, uxIndexToBufferOwner,
                    stackVars, semVars, hwRxBD, pc, usLen, bringUpVars >>

\* Transmit DMA finds no ready descriptor and goes idle until TDAR is written.
HwTransmitIdle ==
    /\ FecEnabled
    /\ regs.TDAR
    /\ "TX_BD_R" \notin xFECTxDescriptors[fecTX_BUFFER_TO_USE].status
    /\ regs' = [ regs EXCEPT !.TDAR = FALSE ]
    /\ last' = Last("hardware", 0, {})
    /\ UNCHANGED << configVars, ringVars, stackVars, semVars, hwRxBD, pc, usLen, bringUpVars >>

\* The MAC reports a fatal condition.
HwFault ==
    /\ FecEnabled
    /\ \E e \in FaultsRaised \ regs.EIR :
         regs' = [ regs EXCEPT !.EIR = @ \cup {e} ]
    /\ last' = Last("hardware", 0, {})
    /\ UNCHANGED << configVars, ringVars, stackVars, semVars, hwRxBD, pc, usLen, bringUpVars >>

\* The uIP task consumes a wake-up (xSemaphoreTake on xFECSemaphore) before polling.
TaskWake ==
    /\ pc = "idle"
    /\ TaskRuns
    /\ xFECSemaphore = 1
    /\ xFECSemaphore' = 0
    /\ last' = Last("TaskWake", 0, {})
    /\ UNCHANGED << configVars, ringVars, stackVars, xTxSemaphore, regs, hwRxBD, pc, usLen,
                    bringUpVars >>

Next ==
    \/ vInitFEC
    \/ usGetFECRxData_ReadLength
    \/ usGetFECRxData_Return
    \/ vDiscardRxData_Free
    \/ vDiscardRxData_Advance
    \/ vSendBufferToFEC_Take
    \/ vSendBufferToFEC_Timeout
    \/ vSendBufferToFEC_CheckBusy
    \/ vSendBufferToFEC_SetLength
    \/ vSendBufferToFEC_SetReady
    \/ vSendBufferToFEC_SetData
    \/ vSendBufferToFEC_SetOwner
    \/ vSendBufferToFEC_Advance
    \/ vSendBufferToFEC_Doorbell
    \/ vFEC_ISR
    \/ HwReceive
    \/ HwReceiveIdle
    \/ HwTransmit
    \/ HwTransmitIdle
    \/ HwFault
    \/ TaskWake

Spec == Init /\ [][Next]_vars


(* ====================================================================== *)
(*                               Properties                               *)
(* ====================================================================== *)
\* The receive slot whose buffer p is (RxBufferPointer is one to one).
SlotOf(p) == CHOOSE i \in 0..(N - 1) : RxBufferPointer(i) = p
IsRxBuffer(p) == \E i \in 0..(N - 1) : RxBufferPointer(i) = p
TxBD == xFECTxDescriptors[fecTX_BUFFER_TO_USE]

\* The uIP task is between two driver calls.
BetweenCalls == pc \in {"idle", "holding"}
\* The three owners of receive buffer i.
HardwareOwns(i) == "RX_BD_E" \in xFECRxDescriptors[i].status
ConsumerOwns(i) == pc = "holding" /\ uip_buf = RxBufferPointer(i)
TransmitOwns(i) == "TX_BD_R" \in TxBD.status /\ TxBD.data = RxBufferPointer(i)
OwnersOf(i) ==
    (IF HardwareOwns(i) THEN {"hardware"} ELSE {})
      \cup (IF ConsumerOwns(i) THEN {"consumer"} ELSE {})
      \cup (IF TransmitOwns(i) THEN {"transmit"} ELSE {})
\* Buffer i is between owners: a stored frame not yet polled, or a transmitted
\* frame whose transmit-complete event vFEC_ISR has not handled yet.
InTransit(i) == OwnersOf(i) = {}

(* C1: at every instant between driver calls, each receive buffer is owned by
   exactly one of the hardware receive DMA (RX_BD_E set), the consumer (returned
   by the poll, not yet released or submitted) and the in-flight transmit
   descriptor (TX_BD_R set, data pointing at it). A buffer in transit between
   two owners counts as owned; what is required is that no buffer has two
   owners. *)
C1_ExclusiveOwnership ==
    (Configured /\ BetweenCalls) =>
        \A i \in 0..(N - 1) : InTransit(i) \/ Cardinality(OwnersOf(i)) = 1


(* C2: usGetFECRxData returns a nonzero length, and sets uip_buf to the cursor
   descriptor's buffer, only if that descriptor is not hardware-owned (RX_BD_E
   clear) and its length is nonzero; otherwise it returns 0. *)
C2_PollNeverReportsHardwareOwned ==
    (last.op = "usGetFECRxData") =>
        IF last.ret # 0
        THEN /\ "RX_BD_E" \notin xFECRxDescriptors[uxNextRxBuffer].status
             /\ xFECRxDescriptors[uxNextRxBuffer].length # 0
             /\ uip_buf = xFECRxDescriptors[uxNextRxBuffer].data
        ELSE \/ "RX_BD_E" \in xFECRxDescriptors[uxNextRxBuffer].status
             \/ xFECRxDescriptors[uxNextRxBuffer].length = 0

\* A poll of a hardware-owned cursor descriptor has returned 0.
C2_Witness ==
    /\ last.op = "usGetFECRxData"
    /\ last.ret = 0
    /\ "RX_BD_E" \in xFECRxDescriptors[uxNextRxBuffer].status

\* A step that re-initialises the rings.
RingInitStep ==
    \/ last'.op \in {"vInitFEC_Entry", "prvResetFEC"}
    \/ last'.op = "vFEC_ISR" /\ IsFatal(last'.ev)

(* C3: each vDiscardRxData advances the cursor by exactly one position modulo N,
   and between two releases nothing moves the cursor but an accepted submit (by
   one, modulo N) or a ring re-initialisation (to 0): with no reset and no submit
   in between, the cursor before the i-th release is i mod N. *)
C3_CursorAdvancesModuloN ==
    [][ /\ (pc \in {"dis592", "drop592"} /\ pc' = "idle")
            => uxNextRxBuffer' = (uxNextRxBuffer + 1) % N
        /\ (pc \in {"holding", "drop590"} /\ pc' \in {"dis592", "drop592"})
            => uxNextRxBuffer' = uxNextRxBuffer
        /\ (uxNextRxBuffer' # uxNextRxBuffer)
            => \/ pc \in {"dis592", "drop592", "snd628"}
                    /\ uxNextRxBuffer' = (uxNextRxBuffer + 1) % N
               \/ RingInitStep /\ uxNextRxBuffer' = 0 ]_vars

\* A release has wrapped the cursor of a ring of more than one slot back to 0.
C3_Witness ==
    /\ N >= 2
    /\ last.op = "vDiscardRxData"
    /\ uxNextRxBuffer = 0

(* C4: when vSendBufferToFEC returns after accepting the frame, the transmit
   descriptor is hardware-owned (TX_BD_R and TX_BD_L set) with the submitted
   length and buffer, and the value returned tells the caller whether the frame
   was accepted or not. *)
C4_SubmitOutcome ==
    (last.op = "vSendBufferToFEC") =>
        /\ ("accepted" \in last.ev) =>
              /\ {"TX_BD_R", "TX_BD_L"} \subseteq TxBD.status
              /\ TxBD.length = uip_len
              /\ TxBD.data = uip_buf
        /\ (last.ret # 0) <=> ("accepted" \in last.ev)

(* C5: one invocation of vFEC_ISR with a fatal event pending and enabled ends
   with every receive descriptor hardware-owned with length configFEC_BUFFER_SIZE,
   the transmit descriptor software-owned (TX_BD_R clear, data NULL, length 0),
   the cursor 0, the MAC enabled and the receive doorbell written; the duplex
   settings in RCR and TCR are those of before the fault. *)
C5_FatalEventResets ==
    [][ (IsrPending /\ IsFatal(PendingEvents) /\ last'.op = "vFEC_ISR") =>
          /\ \A i \in 0..(N - 1) :
                /\ "RX_BD_E" \in xFECRxDescriptors'[i].status
                /\ xFECRxDescriptors'[i].length = configFEC_BUFFER_SIZE
          /\ "TX_BD_R" \notin xFECTxDescriptors'[fecTX_BUFFER_TO_USE].status
          /\ xFECTxDescriptors'[fecTX_BUFFER_TO_USE].data = NULL
          /\ xFECTxDescriptors'[fecTX_BUFFER_TO_USE].length = 0
          /\ uxNextRxBuffer' = 0
          /\ regs'.ECR = "ETHER_EN"
          /\ regs'.RDAR
          /\ regs'.TCR = regs.TCR
          /\ regs'.RCR = regs.RCR ]_vars

\* vFEC_ISR has just handled a fatal event while a frame was held by the consumer
\* and a transmit had not been reported complete.
C5_Witness ==
    /\ last.op = "vFEC_ISR"
    /\ IsFatal(last.ev)
    /\ pc = "holding"
    /\ xTxSemaphore = 0

(* C6: when the buffer the poll returned for slot k has been submitted and
   accepted, the transmit descriptor points at that buffer and
   uxIndexToBufferOwner = k; and when vFEC_ISR has handled the transmit-complete
   event, receive descriptor k is hardware-owned again, the receive doorbell is
   written and xTxSemaphore is given. *)
C6_ZeroCopyHandoff ==
    /\ (last.op = "vSendBufferToFEC" /\ "accepted" \in last.ev) =>
          /\ TxBD.data = uip_buf
          /\ uxIndexToBufferOwner = SlotOf(uip_buf)
    /\ (last.op = "vFEC_ISR" /\ IsTransmitDone(last.ev) /\ IsRxBuffer(TxBD.data)) =>
          /\ "RX_BD_E" \in xFECRxDescriptors[SlotOf(TxBD.data)].status
          /\ regs.RDAR
          /\ xTxSemaphore = 1

(* C7: while the transmit that slot k donated its buffer to is in flight, no
   operation has set RX_BD_E on descriptor k and the poll has not handed buffer k
   to the consumer again. *)
C7_DonatedSlotNotReused ==
    (Configured /\ BetweenCalls) =>
        \A k \in 0..(N - 1) :
            TransmitOwns(k) => (~HardwareOwns(k) /\ ~ConsumerOwns(k))

(* C8: once prvInitialiseFECBuffers has run, exactly one descriptor of each ring
   carries the wrap marker, and it is the last one (N-1 for receive,
   fecNUM_FEC_TX_BUFFERS-1 = 0 for transmit). *)
C8_WrapMarkerOnLastOnly ==
    (pc # "ENTRY") =>
        /\ { i \in 0..(N - 1) : "RX_BD_W" \in xFECRxDescriptors[i].status } = {N - 1}
        /\ { i \in 0..(fecNUM_FEC_TX_BUFFERS - 1) : "TX_BD_W" \in xFECTxDescriptors[i].status }
              = {fecNUM_FEC_TX_BUFFERS - 1}

\* The hardware has stored a frame in the last descriptor of a ring of more than
\* one slot while a transmit is in flight.
C8_Witness ==
    /\ N >= 2
    /\ "RX_BD_E" \notin xFECRxDescriptors[N - 1].status
    /\ "TX_BD_R" \in TxBD.status
    /\ regs.TDAR

\* Full duplex as the claims state it: the 100BASE-TX full-duplex bit (0x0100) or
\* the 10BASE-T full-duplex bit (0x0040) of the word is set.
AdvertisesFullDuplex(w) == ((w % 512) >= 256) \/ ((w % 128) >= 64)
\* Speed 100 as the claims state it: bit 0x0100 or bit 0x0080 is set.
Advertises100(w) == ((w % 512) >= 256) \/ ((w % 256) >= 128)

\* CONFIGURED: vInitFEC has returned with the duplex of the ability word in TCR,
\* the station address and its hash installed, interrupts unmasked, the MAC
\* enabled and receive DMA armed.
BringUpDone ==
    /\ pc = "idle"
    /\ ("FDEN" \in regs.TCR) <=> AdvertisesFullDuplex(phy.anlpar)
    /\ regs.PALR = << ucMACAddress[1], ucMACAddress[2], ucMACAddress[3], ucMACAddress[4] >>
    /\ regs.PAUR = << ucMACAddress[5], ucMACAddress[6], 0, 0 >>
    /\ regs.IALR \cup { b + 32 : b \in regs.IAUR } = { fec_hash_address(ucMACAddress) }
    /\ regs.EIMR = AllEvents
    /\ intcUnmasked
    /\ regs.ECR = "ETHER_EN"
    /\ regs.RDAR

(* C9: if the PHY reports a valid identification and the end of negotiation
   after finitely many polls and no MII access times out, vInitFEC terminates in
   CONFIGURED. *)
C9_BringUpTerminates == (pc = "ENTRY" /\ phy.miiFails = 0) ~> BringUpDone

\* Bring-up has ended against a PHY that answered 0xFFFF three times and
\* "negotiation not complete" twice, with no MII time-out.
C9_Witness ==
    /\ pc = "idle"
    /\ phy.idDelay = 3
    /\ phy.anDelay = 2
    /\ phy.miiTimeouts = 0
    /\ phy.miiFails = 0

(* C10 as amended: after the link decoding of lines 444-462 the duplex is full
   (TCR FDEN set, RCR DRT clear) if the word in usData has the 100BASE-TX
   full-duplex or the 10BASE-T full-duplex bit, else half (FDEN clear, DRT set);
   a successful read in RESULT_READ makes that word the PHY's link-partner
   ability word; the speed is not recorded anywhere. *)
C10_LinkDecoding ==
    /\ (pc = "FILTER") =>
          /\ ("FDEN" \in regs.TCR) <=> AdvertisesFullDuplex(usData)
          /\ ("DRT" \in regs.RCR) <=> ~AdvertisesFullDuplex(usData)
          /\ linkSpeed = 0
    /\ (pc = "FILTER" /\ usData = PHY_ANLPAR_100BTX_FDX) => "FDEN" \in regs.TCR
    /\ (pc = "FILTER" /\ usData = PHY_ANLPAR_10BTX) => "FDEN" \notin regs.TCR
    /\ (pc = "LINK_DECODE" /\ last.ret = 1) => usData = phy.anlpar

\* The decoding has run on an ability word advertising only the two 10BASE-T modes.
C10_Witness ==
    /\ pc = "FILTER"
    /\ usData = PHY_ANLPAR_10BTX_FDX + PHY_ANLPAR_10BTX
    /\ usData = phy.anlpar

(* C10 as stated: after the link decoding both the decoded duplex and the
   decoded speed (100 if the 100BASE-TX full- or half-duplex bit is set, else 10)
   are recorded in the driver's link state. *)
C10_SpeedAndDuplexRecorded ==
    (pc = "FILTER") =>
        /\ ("FDEN" \in regs.TCR) <=> AdvertisesFullDuplex(usData)
        /\ linkSpeed = (IF Advertises100(usData) THEN 100 ELSE 10)


(* ------------------- fec_hash_address in isolation -------------------- *)
\* Before vInitFEC, with any of the addresses.
InitHash ==
    /\ N = 1
    /\ ucMACAddress \in HashAddresses
    /\ phy \in PhyStates({1}, {0}, {PHY_ANLPAR_100BTX_FDX}, {0})
    /\ InitCommon

\* One call of fec_hash_address( addr ): it reads addr and writes its locals only.
fec_hash_address_Call ==
    \E addr \in HashAddresses :
        /\ ucMACAddress' = addr
        /\ last' = Last("fec_hash_address", fec_hash_address(addr), {})
        /\ UNCHANGED << N, rxOrder, mii, polled, ringVars, uxIndexToBufferOwner, stackVars, semVars, regs,
                        hwRxBD, pc, usLen, bringUpVars >>

SpecHash == InitHash /\ [][fec_hash_address_Call]_vars

\* Reference CRC-32: the register is the set of the positions of its one bits; a
\* byte is exclusive-ored into the low eight bits and the register is then
\* divided eight times by the reflected generator polynomial
\* x^32+x^26+x^23+x^22+x^16+x^12+x^11+x^10+x^8+x^7+x^5+x^4+x^2+x+1.
RefPolyBits == { 31 - k : k \in {0, 1, 2, 4, 5, 7, 8, 10, 11, 12, 16, 22, 23, 26} }
RefXorByte(c, byte) ==
    { i \in 0..31 : (i \in c) # (i < 8 /\ ((byte \div (2 ^ i)) % 2) = 1) }
RefDivide(c) ==
    { i \in 0..31 : ((i + 1) \in c) # (0 \in c /\ i \in RefPolyBits) }
RefByte(c, byte) ==
    RefDivide(RefDivide(RefDivide(RefDivide(
        RefDivide(RefDivide(RefDivide(RefDivide(RefXorByte(c, byte)))))))))
RefCrc(addr) ==
    RefByte(RefByte(RefByte(RefByte(RefByte(RefByte(
        0..31, addr[1]), addr[2]), addr[3]), addr[4]), addr[5]), addr[6])
\* Bits 31..26 of the register as a number.
RefBit(c, i) == IF i \in c THEN 1 ELSE 0
RefTop6(c) ==
    RefBit(c, 26) + 2 * RefBit(c, 27) + 4 * RefBit(c, 28) + 8 * RefBit(c, 29)
        + 16 * RefBit(c, 30) + 32 * RefBit(c, 31)

(* C11: fec_hash_address changes no driver state, and for every address its
   value depends on the address only, lies in 0..63 and is bits 31..26 of the
   reference CRC-32 (reflected polynomial 0xEDB88320, seed 0xFFFFFFFF, no final
   inversion); for 00:11:22:33:44:55 it is 44. *)
C11_HashIsTopBitsOfCrc32 ==
    (last.op = "fec_hash_address") =>
        /\ last.ret \in 0..63
        /\ last.ret = RefTop6(RefCrc(ucMACAddress))
        /\ (ucMACAddress = <<0, 17, 34, 51, 68, 85>>) => last.ret = 44
        /\ regs = ResetValueRegs
        /\ uxNextRxBuffer = 0 /\ uxIndexToBufferOwner = 0
        /\ \A i \in 0..(N - 1) : xFECRxDescriptors[i].status = {}
        /\ xFECTxDescriptors[fecTX_BUFFER_TO_USE].status = {}

\* fec_hash_address has been applied to the address of the specification's example.
C11_Witness ==
    /\ last.op = "fec_hash_address"
    /\ ucMACAddress = <<0, 17, 34, 51, 68, 85>>
    /\ last.ret = 44


(* C12: when vSendBufferToFEC does not obtain xTxSemaphore within
   fecTX_BUFFER_WAIT it never enters the transmit path; it marks the cursor
   descriptor RX_BD_E, writes the receive doorbell and advances the cursor by one
   modulo N, as vDiscardRxData does, and its steps leave the transmit descriptor,
   uxIndexToBufferOwner, the transmit doorbell and the MAC enable untouched. *)
C12_TimeoutDropsFrame ==
    [][ /\ (pc = "holding" /\ pc' = "drop590") =>
              /\ xTxSemaphore = 0
              /\ UNCHANGED << ringVars, uxIndexToBufferOwner, regs, semVars >>
        /\ (pc = "drop590" /\ pc' # pc) =>
              /\ pc' = "drop592"
              /\ xFECRxDescriptors' = [ xFECRxDescriptors EXCEPT
                                          ![uxNextRxBuffer].status = @ \cup {"RX_BD_E"} ]
              /\ regs'.RDAR
              /\ regs' = [ regs EXCEPT !.RDAR = TRUE ]
              /\ UNCHANGED << xFECTxDescriptors, uxIndexToBufferOwner, uxNextRxBuffer >>
        /\ (pc = "drop592" /\ pc' # pc) =>
              /\ pc' = "idle"
              /\ last' = Last("vSendBufferToFEC", 0, {"dropped"})
              /\ uxNextRxBuffer' = (uxNextRxBuffer + 1) % N
              /\ UNCHANGED << xFECRxDescriptors, xFECTxDescriptors, uxIndexToBufferOwner,
                              regs >> ]_vars

\* A submit has dropped its frame while the previous transmit was still in flight.
C12_Witness ==
    /\ last = Last("vSendBufferToFEC", 0, {"dropped"})
    /\ "TX_BD_R" \in TxBD.status
    /\ xTxSemaphore = 0


(* ---------------------- every fatal event of the MAC ------------------ *)
\* The MAC reports any non-empty combination of fatal conditions at once.
HwFaultAny ==
    /\ FecEnabled
    /\ regs.EIR \cap FatalEvents = {}
    /\ \E raised \in (SUBSET FatalEvents) \ {{}} :
         regs' = [ regs EXCEPT !.EIR = @ \cup raised ]
    /\ last' = Last("hardware", 0, {})
    /\ UNCHANGED << configVars, ringVars, stackVars, semVars, hwRxBD, pc, usLen, bringUpVars >>

\* The driver, the DMA engines and the MAC raising every fatal event; the wake-up
\* the task takes from xFECSemaphore plays no part in the fault handling.
NextFaults ==
    \/ vInitFEC
    \/ usGetFECRxData_ReadLength
    \/ usGetFECRxData_Return
    \/ vDiscardRxData_Free
    \/ vDiscardRxData_Advance
    \/ vSendBufferToFEC_Take
    \/ vSendBufferToFEC_Timeout
    \/ vSendBufferToFEC_CheckBusy
    \/ vSendBufferToFEC_SetLength
    \/ vSendBufferToFEC_SetReady
    \/ vSendBufferToFEC_SetData
    \/ vSendBufferToFEC_SetOwner
    \/ vSendBufferToFEC_Advance
    \/ vSendBufferToFEC_Doorbell
    \/ vFEC_ISR
    \/ HwReceive
    \/ HwReceiveIdle
    \/ HwTransmit
    \/ HwTransmitIdle
    \/ HwFaultAny

\* A ring of two slots, one MAC address, a PHY that answers at once.
InitFaults ==
    /\ N = 2
    /\ ucMACAddress = <<0, 17, 34, 51, 68, 85>>
    /\ phy \in PhyStates({1}, {0}, {PHY_ANLPAR_100BTX_FDX}, {0})
    /\ InitCommon

SpecFaults == InitFaults /\ [][NextFaults]_vars

(* C13: an invocation of vFEC_ISR with any non-empty combination of the seven
   fatal bits pending and enabled leaves the rings and the cursor as
   prvInitialiseFECBuffers leaves them and the MAC re-enabled with receive DMA
   armed, the same for every combination; an invocation with no fatal bit pending
   leaves the transmit ring, the cursor and the MAC enable alone and changes the
   receive ring at most by RX_BD_E on the donated slot. *)
C13_EveryFatalBitResets ==
    [][ (IsrPending /\ last'.op = "vFEC_ISR") =>
          LET ev == regs.EIR \cap regs.EIMR
          IN  IF ev \cap {"UN", "RL", "LC", "EBERR", "BABT", "BABR", "HBERR"} # {}
              THEN /\ xFECRxDescriptors' = InitialRxRing
                   /\ xFECTxDescriptors' = InitialTxRing
                   /\ uxNextRxBuffer' = 0
                   /\ regs'.ECR = "ETHER_EN"
                   /\ regs'.RDAR
                   /\ ~regs'.TDAR
              ELSE /\ xFECTxDescriptors' = xFECTxDescriptors
                   /\ uxNextRxBuffer' = uxNextRxBuffer
                   /\ regs'.ECR = regs.ECR
                   /\ regs'.TDAR = regs.TDAR
                   /\ \A i \in 0..(N - 1) :
                        \/ xFECRxDescriptors'[i] = xFECRxDescriptors[i]
                        \/ /\ i = uxIndexToBufferOwner
                           /\ ev \cap {"TXF", "TXB"} # {}
                           /\ xFECRxDescriptors'[i] =
                                [ xFECRxDescriptors[i] EXCEPT !.status = @ \cup {"RX_BD_E"} ] ]_vars

\* vFEC_ISR has handled heartbeat error and late collision together, with frames
\* received and the cursor away from 0 before it.
C13_Witness ==
    /\ last.op = "vFEC_ISR"
    /\ last.ev \cap FatalEvents = {"HBERR", "LC"}
    /\ uxNextRxBuffer = 0
    /\ pc = "dis592"


(* ------------------- a transmit completion reported twice ------------- *)
\* The MAC reports the completion of a frame a second time (the duplicate-send
\* erratum the comment of lines 65-66 refers to): a transmit-complete event with
\* no transmission of its own, once a frame has been queued.
HwTransmitDuplicate ==
    /\ FecEnabled
    /\ xFECTxDescriptors[fecTX_BUFFER_TO_USE].data # NULL
    /\ "TXF" \notin regs.EIR
    /\ regs' = [ regs EXCEPT !.EIR = @ \cup {"TXF"} ]
    /\ last' = Last("hardware", 0, {})
    /\ UNCHANGED << configVars, ringVars, stackVars, semVars, hwRxBD, pc, usLen, bringUpVars >>

\* The driver with the branch of lines 606-614, the DMA engines, and the MAC
\* reporting completions twice; no fatal event.  Without a fatal event TDAR is
\* only ever set together with TX_BD_R, so the transmit DMA never finds its
\* descriptor not ready and HwTransmitIdle has no step to take here.
NextBusy ==
    \/ vInitFEC
    \/ usGetFECRxData_ReadLength
    \/ usGetFECRxData_Return
    \/ vDiscardRxData_Free
    \/ vDiscardRxData_Advance
    \/ vSendBufferToFEC_Take
    \/ vSendBufferToFEC_Timeout
    \/ vSendBufferToFEC_CheckBusy
    \/ vSendBufferToFEC_Reset
    \/ vSendBufferToFEC_GiveBack
    \/ vSendBufferToFEC_SetLength
    \/ vSendBufferToFEC_SetReady
    \/ vSendBufferToFEC_SetData
    \/ vSendBufferToFEC_SetOwner
    \/ vSendBufferToFEC_Advance
    \/ vSendBufferToFEC_Doorbell
    \/ vFEC_ISR
    \/ HwReceive
    \/ HwReceiveIdle
    \/ HwTransmit
    \/ HwTransmitDuplicate
    \/ TaskWake

SpecBusy == Init /\ [][NextBusy]_vars

(* C14: when vSendBufferToFEC has obtained xTxSemaphore and finds TX_BD_R set, it
   resets the FEC in task context (rings and cursor as prvInitialiseFECBuffers
   leaves them, MAC re-enabled, receive DMA armed), does not queue the frame, and
   gives xTxSemaphore back before it returns. *)
C14_BusyResetsAndGivesBack ==
    [][ /\ (pc = "snd606" /\ pc' # pc /\ "TX_BD_R" \in TxBD.status) =>
              /\ pc' = "snd609"
              /\ UNCHANGED << ringVars, uxIndexToBufferOwner, regs >>
        /\ (pc = "snd609" /\ pc' # pc) =>
              /\ pc' = "snd613"
              /\ xFECRxDescriptors' = InitialRxRing
              /\ xFECTxDescriptors' = InitialTxRing
              /\ uxNextRxBuffer' = 0
              /\ regs'.ECR = "ETHER_EN"
              /\ regs'.RDAR
              /\ ~regs'.TDAR
        /\ (pc = "snd613" /\ pc' # pc) =>
              /\ pc' = "idle"
              /\ last' = Last("vSendBufferToFEC", 0, {"reset"})
              /\ xTxSemaphore' = 1
              /\ "TX_BD_R" \notin xFECTxDescriptors'[fecTX_BUFFER_TO_USE].status
              /\ xFECTxDescriptors'[fecTX_BUFFER_TO_USE].data # uip_buf
              /\ UNCHANGED << ringVars, uxIndexToBufferOwner, regs >> ]_vars

\* A submit has found the transmit descriptor busy, reset the FEC and returned
\* with the token available.
C14_Witness ==
    /\ last = Last("vSendBufferToFEC", 0, {"reset"})
    /\ xTxSemaphore = 1
    /\ pc = "idle"


(* --------------------- frames numbered as they arrive ----------------- *)
\* usGetFECRxData's second step, recording which frame it returns: the number of
\* the frame last stored in the cursor's slot.
usGetFECRxData_Return_Numbered ==
    /\ pc = "get574"
    /\ TaskRuns
    /\ IF FrameAvailable(usLen, xFECRxDescriptors[uxNextRxBuffer])
       THEN /\ uip_buf' = xFECRxDescriptors[uxNextRxBuffer].data
            /\ uip_len' = usLen
            /\ pc' = "holding"
            /\ last' = Last("usGetFECRxData", usLen, {})
            /\ rxOrder' = [ rxOrder EXCEPT !.before = rxOrder.delivered,
                                           !.delivered = rxOrder.slot[uxNextRxBuffer] ]
       ELSE /\ uip_buf' = uip_buf
            /\ uip_len' = 0
            /\ pc' = "idle"
            /\ last' = Last("usGetFECRxData", 0, {})
            /\ rxOrder' = rxOrder
    /\ usLen' = 0
    /\ UNCHANGED << N, ucMACAddress, mii, polled, ringVars, semVars, regs, hwRxBD, bringUpVars >>

\* The receive DMA storing a frame, the frames numbered 1, 2, ... as they arrive.
HwReceive_Numbered ==
    /\ FecEnabled
    /\ regs.RDAR
    /\ "RX_BD_E" \in xFECRxDescriptors[hwRxBD].status
    /\ rxOrder.stored < MaxFrames
    /\ \E len \in FrameLengths :
         xFECRxDescriptors' = [ xFECRxDescriptors EXCEPT
                                  ![hwRxBD].status = @ \ {"RX_BD_E"},
                                  ![hwRxBD].length = len ]
    /\ hwRxBD' = HwNextRxBD
    /\ regs' = [ regs EXCEPT !.EIR = @ \cup {"RXF"},
                             !.RDAR = (hwRxBD' # hwRxBD)
                                        /\ "RX_BD_E" \in xFECRxDescriptors[hwRxBD'].status ]
    /\ rxOrder' = [ rxOrder EXCEPT !.stored = @ + 1, !.slot[hwRxBD] = rxOrder.stored + 1 ]
    /\ last' = Last("hardware", 0, {})
    /\ UNCHANGED << N, ucMACAddress, mii, polled, xFECTxDescriptors, uxNextRxBuffer,
                    uxIndexToBufferOwner, stackVars, semVars, pc, usLen, bringUpVars >>

NextOrder ==
    \/ vInitFEC
    \/ usGetFECRxData_ReadLength
    \/ usGetFECRxData_Return_Numbered
    \/ vDiscardRxData_Free
    \/ vDiscardRxData_Advance
    \/ vSendBufferToFEC_Take
    \/ vSendBufferToFEC_Timeout
    \/ vSendBufferToFEC_CheckBusy
    \/ vSendBufferToFEC_SetLength
    \/ vSendBufferToFEC_SetReady
    \/ vSendBufferToFEC_SetData
    \/ vSendBufferToFEC_SetOwner
    \/ vSendBufferToFEC_Advance
    \/ vSendBufferToFEC_Doorbell
    \/ vFEC_ISR
    \/ HwReceive_Numbered
    \/ HwReceiveIdle
    \/ HwTransmit
    \/ HwTransmitIdle
    \/ HwFault
    \/ TaskWake

SpecOrder == Init /\ [][NextOrder]_vars

(* C15: the frames returned by successive successful usGetFECRxData calls are
   returned in the order in which the hardware stored them: each frame returned
   was stored later than the one returned before it, so none is returned before
   an earlier one and none is returned twice. *)
C15_DeliveryInRingOrder ==
    (rxOrder.before # 0) => rxOrder.before < rxOrder.delivered


\* Slot i holds a received frame the consumer has not been given or has not
\* finished with: not empty, and not lent to the transmit descriptor.
HoldsFrame(i) == ~HardwareOwns(i) /\ ~TransmitOwns(i)

(* C16: whenever no driver call is in progress and every interrupt has been
   served, the receive cursor is the slot the hardware fills next if no slot
   holds a frame, and a slot that holds a frame if some slot does. *)
C16_CursorNamesNextCandidate ==
    (Configured /\ pc = "idle" /\ ~IsrPending) =>
        IF \A i \in 0..(N - 1) : ~HoldsFrame(i)
        THEN HardwareOwns(uxNextRxBuffer) => uxNextRxBuffer = hwRxBD
        ELSE HoldsFrame(uxNextRxBuffer)


\* The task has made one and not yet the last of the writes of one operation to
\* the rings, the cursor or uxIndexToBufferOwner: after line 590 and before line
\* 592 of vDiscardRxData, after line 620 and before line 628 of vSendBufferToFEC.
BetweenWrites == pc \in {"dis592", "drop592", "snd621", "snd622", "snd625", "snd628"}

(* C17: vFEC_ISR never runs between two writes that one task-context operation
   makes to the descriptor rings, uxNextRxBuffer or uxIndexToBufferOwner. *)
C17_TaskWritesInCriticalSection == ~(last.op = "vFEC_ISR" /\ BetweenWrites)


(* C18: vInitFEC leaves the PHY presence loop only after a fec_mii_read of the
   identification register that returned 1 and delivered a value other than
   0xFFFF; a read that timed out is followed by another iteration. *)
C18_PhyPresentTimeoutRetries ==
    (last.op = "vInitFEC_PhyPresent" /\ pc = "AUTONEG_START") =>
        (last.ret = 1 /\ usData # PHY_ID_ABSENT)

(* C19: vInitFEC leaves the wait for autonegotiation only after a fec_mii_read
   of the status register that returned 1 with PHY_BMSR_AN_COMPLETE set, never
   on the value an earlier read left in usData. *)
C19_AutonegWaitExitsOnStatus ==
    (last.op = "vInitFEC_AutonegWait" /\ pc = "RESULT_READ") =>
        (last.ret = 1 /\ HasBit(usData, PHY_BMSR_AN_COMPLETE))


\* TCR.FDEN and RCR.DRT are programmed for the duplex that ability word w gives.
DuplexBitsMatch(w) ==
    /\ ("FDEN" \in regs.TCR) <=> DuplexIsFull(w)
    /\ ("DRT" \in regs.RCR) <=> ~DuplexIsFull(w)

(* C20: when vInitFEC reaches CONFIGURED the MAC duplex bits match the negotiated
   duplex (full: TCR.FDEN set and RCR.DRT clear; half: FDEN clear and DRT set),
   and no register write between the duplex decision and ETHER_EN undoes either. *)
C20_DuplexBitsAtConfigured ==
    /\ (pc = "ENABLE") => DuplexBitsMatch(usData)
    /\ (pc = "idle" /\ last.op = "vInitFEC_Enable" /\ phy.miiTimeouts = 0) =>
           DuplexBitsMatch(phy.anlpar)


(* ------------------ bring-up followed by both recoveries -------------- *)
\* The driver with both callers of prvResetFEC (vFEC_ISR on a fatal event and
\* the busy branch of vSendBufferToFEC), the DMA engines, fatal events and
\* completions reported twice.  On the ring of one descriptor this
\* specification runs on, the receive DMA goes idle in the step that stores a
\* frame (HwReceive), so HwReceiveIdle has no step to take.  The wake-up the
\* task takes from xFECSemaphore plays no part in the recovery.
NextRecovery ==
    \/ vInitFEC
    \/ usGetFECRxData_ReadLength
    \/ usGetFECRxData_Return
    \/ vDiscardRxData_Free
    \/ vDiscardRxData_Advance
    \/ vSendBufferToFEC_Take
    \/ vSendBufferToFEC_Timeout
    \/ vSendBufferToFEC_CheckBusy
    \/ vSendBufferToFEC_Reset
    \/ vSendBufferToFEC_GiveBack
    \/ vSendBufferToFEC_SetLength
    \/ vSendBufferToFEC_SetReady
    \/ vSendBufferToFEC_SetData
    \/ vSendBufferToFEC_SetOwner
    \/ vSendBufferToFEC_Advance
    \/ vSendBufferToFEC_Doorbell
    \/ vFEC_ISR
    \/ HwReceive
    \/ HwTransmit
    \/ HwTransmitIdle
    \/ HwTransmitDuplicate
    \/ HwFault

\* One receive buffer, one MAC address, a PHY that answers at once or after the
\* longest delay, with either of two ability words, and an MII channel that
\* never times out or does so as often as the bound allows.
InitRecovery ==
    /\ N = 1
    /\ ucMACAddress = <<0, 17, 34, 51, 68, 85>>
    /\ phy \in PhyStates({1}, {0, MaxPhyPolls}, {PHY_ANLPAR_100BTX_FDX, PHY_ANLPAR_10BTX},
                         {0, MaxMiiTimeouts})
    /\ InitCommon

SpecRecovery == InitRecovery /\ [][NextRecovery]_vars

\* The position of a bring-up state in the sequence of vInitFEC; CONFIGURED and
\* everything after it comes last.
BringUpRank(p) ==
    CASE p = "ENTRY" -> 0
      [] p = "RESET" -> 1
      [] p = "WAIT_SETTLE" -> 2
      [] p = "PHY_PRESENT_CHECK" -> 3
      [] p = "AUTONEG_START" -> 4
      [] p = "AUTONEG_WAIT" -> 5
      [] p = "RESULT_READ" -> 6
      [] p = "LINK_DECODE" -> 7
      [] p = "FILTER" -> 8
      [] p = "REGS" -> 9
      [] p = "ENABLE" -> 10
      [] OTHER -> 11

\* The steps of vInitFEC that access the PHY over MII or decode the link.
LinkSteps == { "vInitFEC_PhyPresent", "vInitFEC_AutonegStart", "vInitFEC_AutonegWait",
               "vInitFEC_ResultRead", "vInitFEC_LinkDecode" }

(* C21: bring-up visits RESET, WAIT_SETTLE, PHY_PRESENT_CHECK, AUTONEG_START,
   AUTONEG_WAIT, RESULT_READ, CONFIGURED in this order, entering each at most
   once, and once CONFIGURED no step -- in particular no prvResetFEC, from
   vFEC_ISR or from vSendBufferToFEC -- re-enters it, accesses the PHY, restarts
   autonegotiation or changes the duplex and speed settings. *)
C21_BringUpOrderAndNoReentry ==
    [][ /\ BringUpRank(pc') \in { BringUpRank(pc), BringUpRank(pc) + 1 }
        /\ (BringUpRank(pc') = BringUpRank(pc) /\ ~Configured) =>
               pc \in {"PHY_PRESENT_CHECK", "AUTONEG_WAIT"}
        /\ Configured =>
               /\ Configured'
               /\ last'.op \notin LinkSteps
               /\ phy' = phy
               /\ regs'.TCR = regs.TCR
               /\ regs'.RCR = regs.RCR
               /\ linkSpeed' = linkSpeed ]_vars

\* prvResetFEC has run from vSendBufferToFEC with the half-duplex setting in
\* place, after a bring-up that waited for the PHY.
C21_Witness ==
    /\ last.op = "prvResetFEC"
    /\ pc = "snd613"
    /\ "FDEN" \notin regs.TCR
    /\ phy.idDelay > 0
    /\ phy.anDelay > 0


(* ---------------------- a PHY that never responds --------------------- *)
\* The PHY behaviours of InitBringUp, and with each of them a PHY whose
\* identification register reads 0xFFFF for ever on a working MII channel, and
\* an MII channel on which no access ever completes.
InitAnyPhy ==
    /\ N = 1
    /\ ucMACAddress = <<0, 17, 34, 51, 68, 85>>
    /\ \E s \in PhyStates(PhyIdValues, 0..MaxPhyPolls, AbilityWords, 0..MaxMiiTimeouts) :
         \/ phy = s
         \/ s.miiFails = 0 /\ s.idPolls = 0 /\
            phy = [ s EXCEPT !.idPolls = Never, !.idDelay = Never ]
         \/ s.miiFails = 0 /\ phy = [ s EXCEPT !.miiFails = Never ]
    /\ InitCommon

SpecAnyPhy == InitAnyPhy /\ [][vInitFEC]_vars

\* Every read of the identification register yields 0xFFFF, or every MII access
\* times out.
PhyNeverResponds == phy.idPolls = Never \/ phy.miiFails = Never

(* C22: if the PHY never responds -- every identification read yields 0xFFFF, or
   every MII access times out -- vInitFEC never reaches CONFIGURED: the MAC is
   never enabled and receive DMA is never armed, however long it runs. *)
C22_NoPhyNeverConfigured ==
    PhyNeverResponds =>
        /\ ~Configured
        /\ pc \notin {"RESULT_READ", "LINK_DECODE", "FILTER", "REGS", "ENABLE"}
        /\ regs.ECR # "ETHER_EN"
        /\ ~regs.RDAR
        /\ ~intcUnmasked

\* On a channel where every access times out, the presence loop has been left
\* (on the 0 of line 421) and the wait for negotiation has polled in vain.
C22_Witness ==
    /\ phy.miiFails = Never
    /\ pc = "AUTONEG_WAIT"
    /\ last = Last("vInitFEC_AutonegWait", 0, {})
    /\ usData = 0


(* ------------------- one MII access, poll by poll --------------------- *)
\* Values of MCF_FEC_EIMR and MCF_FEC_EIR a call may find, values of *data it
\* may be given, and values of MCF_FEC_MMFR a completed frame leaves (the frame
\* header 0x60020000 above the 16 data bits).
MiiEntryMasks == { {}, {"MII"}, {"RXF", "TXF"}, AllEvents }
MiiEntryEvents == { {}, {"MII"}, {"MII", "RXF"} }
MiiEntryData == { 0, 34, 65535 }
MmfrValues == { 1610743808 + d : d \in {0, 34, 65535} }

InitMii ==
    /\ N = 1
    /\ ucMACAddress = <<0, 17, 34, 51, 68, 85>>
    /\ phy \in PhyStates({1}, {0}, {PHY_ANLPAR_100BTX_FDX}, {0})
    /\ xFECRxDescriptors = InitialRxRing
    /\ xFECTxDescriptors = InitialTxRing
    /\ uxNextRxBuffer = 0
    /\ uxIndexToBufferOwner = 0
    /\ uip_buf = NULL
    /\ uip_len = 0
    /\ xFECSemaphore = 1
    /\ xTxSemaphore = 1
    /\ \E m \in MiiEntryMasks, e \in MiiEntryEvents :
         regs = [ WriteEcrReset(ResetValueRegs) EXCEPT !.EIMR = m, !.EIR = e ]
    /\ intcUnmasked = FALSE
    /\ linkSpeed = 0
    /\ hwRxBD = 0
    /\ pc = "PHY_PRESENT_CHECK"
    /\ usData \in MiiEntryData
    /\ usLen = 0
    /\ last = Last("none", 0, {})
    /\ rxOrder = [ stored |-> 0, slot |-> [ ux \in 0..(N - 1) |-> 0 ], delivered |-> 0,
                   before |-> 0 ]
    /\ mii = NoMiiAccess
    /\ polled = NoPoll

miiFrame == << N, ucMACAddress, rxOrder, polled, ringVars, stackVars, semVars, intcUnmasked,
               linkSpeed, hwRxBD, phy, pc, usLen >>

\* Lines 116-123 and 182-189: the event cleared, MCF_FEC_EIMR saved and the MII
\* bit masked, the management frame started.
fec_mii_Enter ==
    /\ mii.at = "out"
    /\ \E op \in {"fec_mii_read", "fec_mii_write"} :
         mii' = [ NoMiiAccess EXCEPT !.at = "poll", !.op = op, !.eimr = regs.EIMR,
                                     !.inFlight = TRUE, !.entryRegs = regs,
                                     !.entryData = usData ]
    /\ regs' = [ regs EXCEPT !.EIR = @ \ {"MII"}, !.EIMR = @ \ {"MII"} ]
    /\ last' = Last("fec_mii_Enter", 0, {})
    /\ UNCHANGED << miiFrame, usData >>

\* Lines 126-138 and 192-204: one iteration of the polling loop.
fec_mii_Poll ==
    /\ mii.at = "poll"
    /\ mii.timeout < fecMAX_POLLS
    /\ IF "MII" \in regs.EIR
       THEN mii' = [ mii EXCEPT !.polls = @ + 1, !.seen = TRUE, !.at = "exit" ]
       ELSE mii' = [ mii EXCEPT !.polls = @ + 1, !.delays = @ + 1, !.timeout = @ + 1,
                                !.at = IF mii.timeout + 1 < fecMAX_POLLS THEN "poll"
                                       ELSE "exit" ]
    /\ last' = Last("fec_mii_Poll", 0, {})
    /\ UNCHANGED << miiFrame, regs, usData >>

\* A variant that stores the management-frame register whatever the outcome.
fec_mii_Return_AlwaysStores ==
    /\ mii.at = "exit"
    /\ usData' = IF mii.op = "fec_mii_read" THEN mii.mmfr % 65536 ELSE usData
    /\ regs' = [ regs EXCEPT !.EIR = @ \ {"MII"}, !.EIMR = mii.eimr ]
    /\ mii' = [ mii EXCEPT !.at = "out" ]
    /\ last' = Last(mii.op, IF mii.timeout = fecMAX_POLLS THEN 0 ELSE 1, {})
    /\ UNCHANGED miiFrame

\* A variant that returns with the MII bit still masked.
fec_mii_Return_MaskKept ==
    /\ mii.at = "exit"
    /\ usData' = IF mii.op = "fec_mii_read" /\ mii.timeout # fecMAX_POLLS
                 THEN mii.mmfr % 65536 ELSE usData
    /\ regs' = [ regs EXCEPT !.EIR = @ \ {"MII"} ]
    /\ mii' = [ mii EXCEPT !.at = "out" ]
    /\ last' = Last(mii.op, IF mii.timeout = fecMAX_POLLS THEN 0 ELSE 1, {})
    /\ UNCHANGED miiFrame

\* Lines 140-155 and 206-222: the result, *data on success of a read, the event
\* cleared, MCF_FEC_EIMR restored.
fec_mii_Return ==
    /\ mii.at = "exit"
    /\ LET iReturn == IF mii.timeout = fecMAX_POLLS THEN 0 ELSE 1
       IN  /\ usData' = IF mii.op = "fec_mii_read" /\ iReturn = 1
                        THEN mii.mmfr % 65536 ELSE usData
           /\ last' = Last(mii.op, iReturn, {})
    /\ regs' = [ regs EXCEPT !.EIR = @ \ {"MII"}, !.EIMR = mii.eimr ]
    /\ mii' = [ mii EXCEPT !.at = "out" ]
    /\ UNCHANGED miiFrame

\* The management frame completes: the MAC raises the MII event and the frame's
\* value stands in MCF_FEC_MMFR.  doneAt is the number of the first poll that
\* can find the event (fecMAX_POLLS: none).
HwMiiDone ==
    /\ mii.inFlight
    /\ \E v \in MmfrValues :
         mii' = [ mii EXCEPT !.inFlight = FALSE, !.mmfr = v,
                             !.doneAt = IF mii.at = "poll" THEN mii.timeout
                                        ELSE fecMAX_POLLS ]
    /\ regs' = [ regs EXCEPT !.EIR = @ \cup {"MII"} ]
    /\ last' = Last("hardware", 0, {})
    /\ UNCHANGED << miiFrame, usData >>

NextMii ==
    \/ fec_mii_Enter
    \/ fec_mii_Poll
    \/ fec_mii_Return
    \/ HwMiiDone

SpecMii == InitMii /\ [][NextMii]_vars

\* fec_mii_read or fec_mii_write has just returned.
MiiReturned == mii.at = "out" /\ last.op \in {"fec_mii_read", "fec_mii_write"}

(* C23: fec_mii_write and fec_mii_read end after at most fecMAX_POLLS polls of
   the MII event, with one delay after each poll that did not find it; they
   return 1 iff a poll found the event and 0 otherwise, and fec_mii_read stores
   the low 16 bits of MCF_FEC_MMFR in *data exactly when it returns 1. *)
C23_MiiPollsBoundedAndResult ==
    /\ mii.polls <= fecMAX_POLLS
    /\ mii.delays = mii.polls - (IF mii.seen THEN 1 ELSE 0)
    /\ (mii.at = "poll") => mii.timeout < fecMAX_POLLS
    /\ MiiReturned =>
          /\ last.ret = (IF mii.seen THEN 1 ELSE 0)
          /\ (last.ret = 0) => mii.polls = fecMAX_POLLS
          /\ usData = IF last.op = "fec_mii_read" /\ last.ret = 1
                      THEN mii.mmfr % 65536 ELSE mii.entryData
          /\ (last.op = "fec_mii_read") =>
                LET rd == fec_mii_read(mii.entryRegs, mii.doneAt, mii.mmfr, mii.entryData)
                IN  rd.iReturn = last.ret /\ rd.data = usData
          /\ (last.op = "fec_mii_write") =>
                fec_mii_write(mii.entryRegs, mii.doneAt).iReturn = last.ret

\* A read timed out after 20 polls and 20 delays, and left *data as it was.
C23_Witness ==
    /\ MiiReturned
    /\ last = Last("fec_mii_read", 0, {})
    /\ mii.polls = fecMAX_POLLS
    /\ mii.delays = fecMAX_POLLS
    /\ usData = 34


(* C24: an MII access leaves the interrupt configuration as it found it: on the
   success and on the time-out path of fec_mii_write and fec_mii_read,
   MCF_FEC_EIMR on return equals its value on entry, the MII event is masked
   during the whole polling phase and cleared in MCF_FEC_EIR before the return,
   a read that timed out leaves *data unchanged, and rings, cursor and
   semaphores are untouched. *)
C24_MiiAccessRestoresMask ==
    /\ (mii.at \in {"poll", "exit"}) => "MII" \notin regs.EIMR
    /\ MiiReturned =>
          /\ regs.EIMR = mii.entryRegs.EIMR
          /\ "MII" \notin regs.EIR
          /\ regs = [ mii.entryRegs EXCEPT !.EIR = @ \ {"MII"} ]
          /\ regs = fec_mii_read(mii.entryRegs, mii.doneAt, mii.mmfr, mii.entryData).regs
          /\ regs = fec_mii_write(mii.entryRegs, mii.doneAt).regs
          /\ (last = Last("fec_mii_read", 0, {})) => usData = mii.entryData
    /\ xFECRxDescriptors = InitialRxRing
    /\ xFECTxDescriptors = InitialTxRing
    /\ uxNextRxBuffer = 0
    /\ uxIndexToBufferOwner = 0
    /\ xFECSemaphore = 1
    /\ xTxSemaphore = 1

\* A write found every event enabled and the MII event pending, was answered at
\* its third poll, and has returned.
C24_Witness ==
    /\ MiiReturned
    /\ last = Last("fec_mii_write", 1, {})
    /\ mii.entryRegs.EIMR = AllEvents
    /\ "MII" \in mii.entryRegs.EIR
    /\ mii.polls = 3
    /\ regs.EIMR = AllEvents


(* ------------- prvInitialiseFECBuffers, statement by statement -------- *)
RECURSIVE TxInitLoop_OrsStatus(_, _)
\* A variant that ORs TX_BD_TC into the status it finds.
TxInitLoop_OrsStatus(tx, ux) ==
    IF ux < fecNUM_FEC_TX_BUFFERS
    THEN TxInitLoop_OrsStatus([ tx EXCEPT ![ux] = [ status |-> @.status \cup {"TX_BD_TC"},
                                                    data |-> NULL, length |-> 0 ] ], ux + 1)
    ELSE tx

RECURSIVE TxInitLoop(_, _)
\* Lines 326-331: the loop over the transmit descriptors, from index ux on.
TxInitLoop(tx, ux) ==
    IF ux < fecNUM_FEC_TX_BUFFERS
    THEN TxInitLoop([ tx EXCEPT ![ux] = [ status |-> {"TX_BD_TC"}, data |-> NULL,
                                          length |-> 0 ] ], ux + 1)
    ELSE tx

RECURSIVE RxInitLoop(_, _, _)
\* Lines 339-345: the loop over the receive descriptors, from index ux on.
RxInitLoop(rx, ux, pcBufPointer) ==
    IF ux < N
    THEN RxInitLoop([ rx EXCEPT ![ux] = [ status |-> {"RX_BD_E"},
                                          length |-> configFEC_BUFFER_SIZE,
                                          data |-> pcBufPointer ] ],
                    ux + 1, pcBufPointer + configFEC_BUFFER_SIZE)
    ELSE rx

\* prvInitialiseFECBuffers run on transmit ring tx and receive ring rx: the rings
\* and the cursor it leaves.
InitialiseFECBuffersFrom(tx, rx) ==
    LET txFilled == TxInitLoop(tx, 0)
        rxFilled == RxInitLoop(rx, 0, AlignUp(ucFECRxBuffersBase))
    IN  [ tx |-> [ txFilled EXCEPT ![fecNUM_FEC_TX_BUFFERS - 1].status = @ \cup {"TX_BD_W"} ],
          rx |-> [ rxFilled EXCEPT ![N - 1].status = @ \cup {"RX_BD_W"} ],
          uxNextRxBuffer |-> 0 ]

\* The bytes of the buffer bound to a receive descriptor.
SliceOf(bd) == bd.data .. (bd.data + configFEC_BUFFER_SIZE - 1)

\* The step just taken called prvInitialiseFECBuffers.
RingsJustInitialised ==
    \/ last.op \in {"vInitFEC_Entry", "prvResetFEC"}
    \/ last.op = "vFEC_ISR" /\ IsFatal(last.ev)

(* C25: prvInitialiseFECBuffers is idempotent and independent of the state it is
   called in: from any reachable state it leaves the transmit descriptor
   software-owned with data NULL and length 0, every receive descriptor i
   hardware-owned with length configFEC_BUFFER_SIZE and bound to slice i of the
   pool, the slices distinct and disjoint, the wrap bit on the last descriptor of
   each ring only, and the cursor 0; run twice it leaves what it leaves run once. *)
C25_RingInitCanonical ==
    LET once  == InitialiseFECBuffersFrom(xFECTxDescriptors, xFECRxDescriptors)
        twice == InitialiseFECBuffersFrom(once.tx, once.rx)
    IN  /\ once = [ tx |-> InitialTxRing, rx |-> InitialRxRing, uxNextRxBuffer |-> 0 ]
        /\ twice = once
        /\ once.tx[fecTX_BUFFER_TO_USE] =
               [ status |-> {"TX_BD_TC", "TX_BD_W"}, data |-> NULL, length |-> 0 ]
        /\ \A i \in 0..(N - 1) :
              /\ "RX_BD_E" \in once.rx[i].status
              /\ once.rx[i].length = configFEC_BUFFER_SIZE
              /\ once.rx[i].data = AlignUp(ucFECRxBuffersBase) + i * configFEC_BUFFER_SIZE
              /\ once.rx[i].data # NULL
              /\ ("RX_BD_W" \in once.rx[i].status) <=> (i = N - 1)
              /\ \A j \in 0..(N - 1) : (i # j) => SliceOf(once.rx[i]) \cap SliceOf(once.rx[j]) = {}
        /\ RingsJustInitialised =>
              /\ xFECTxDescriptors = once.tx
              /\ xFECRxDescriptors = once.rx
              /\ uxNextRxBuffer = 0

\* The reset ran in the middle of a submit, on a ring of two slots with the
\* cursor and the descriptors out of their initial state, and left them initial.
C25_Witness ==
    /\ N = 2
    /\ last.op = "vFEC_ISR"
    /\ IsFatal(last.ev)
    /\ pc = "snd628"
    /\ uxIndexToBufferOwner = 1
    /\ xFECRxDescriptors = InitialRxRing
    /\ xFECTxDescriptors = InitialTxRing
    /\ uxNextRxBuffer = 0


(* ---------------- a consumer that waits for the wake-up --------------- *)
\* Lines 574-583 called by a consumer that polls until the ring is empty and
\* then blocks on xFECSemaphore (pc = "waiting").
usGetFECRxData_Return_ThenWait ==
    /\ pc = "get574"
    /\ TaskRuns
    /\ IF FrameAvailable(usLen, xFECRxDescriptors[uxNextRxBuffer])
       THEN /\ uip_buf' = xFECRxDescriptors[uxNextRxBuffer].data
            /\ uip_len' = usLen
            /\ pc' = "holding"
            /\ last' = Last("usGetFECRxData", usLen, {})
       ELSE /\ uip_buf' = uip_buf
            /\ uip_len' = 0
            /\ pc' = "waiting"
            /\ last' = Last("usGetFECRxData", 0, {})
    /\ usLen' = 0
    /\ UNCHANGED << configVars, ringVars, semVars, regs, hwRxBD, bringUpVars >>

\* The blocked consumer obtains xFECSemaphore and polls again.
TaskWake_FromWait ==
    /\ pc = "waiting"
    /\ TaskRuns
    /\ xFECSemaphore = 1
    /\ xFECSemaphore' = 0
    /\ pc' = "idle"
    /\ last' = Last("TaskWake", 0, {})
    /\ UNCHANGED << configVars, ringVars, stackVars, xTxSemaphore, regs, hwRxBD, usLen,
                    bringUpVars >>

NextWake ==
    \/ vInitFEC
    \/ usGetFECRxData_ReadLength
    \/ usGetFECRxData_Return_ThenWait
    \/ vDiscardRxData_Free
    \/ vDiscardRxData_Advance
    \/ vSendBufferToFEC_Take
    \/ vSendBufferToFEC_Timeout
    \/ vSendBufferToFEC_CheckBusy
    \/ vSendBufferToFEC_SetLength
    \/ vSendBufferToFEC_SetReady
    \/ vSendBufferToFEC_SetData
    \/ vSendBufferToFEC_SetOwner
    \/ vSendBufferToFEC_Advance
    \/ vSendBufferToFEC_Doorbell
    \/ vFEC_ISR
    \/ HwReceive
    \/ HwReceiveIdle
    \/ HwTransmit
    \/ HwTransmitIdle
    \/ HwFault
    \/ TaskWake_FromWait

SpecWake == Init /\ [][NextWake]_vars

\* The consumer is blocked, no interrupt is pending and no wake-up is stored: it
\* stays blocked until the next receive event.
ConsumerAsleep == pc = "waiting" /\ ~IsrPending /\ xFECSemaphore = 0

(* C26: receive wake-ups coalesce and are never lost: xFECSemaphore holds at
   most one token, a frame pending at the cursor while the consumer is not
   draining the ring finds a token in it, and so a consumer that polls until
   usGetFECRxData returns 0 after each wake-up is never left blocked while a
   frame is stored in the ring. *)
C26_WakeUpsNeverLost ==
    /\ xFECSemaphore \in {0, 1}
    /\ ConsumerAsleep => \A i \in 0..(N - 1) : ~HoldsFrame(i)


(* C27: on the accepted path of vSendBufferToFEC the length and the data pointer
   are written before TX_BD_R is set and the transmit doorbell is written last,
   so whenever TX_BD_R is set during the submit the descriptor holds the data and
   the length of the frame being submitted. *)
C27_ReadyOnlyWhenComplete ==
    (pc \in {"snd621", "snd622", "snd625", "snd628", "snd635"} /\ "TX_BD_R" \in TxBD.status) =>
        /\ TxBD.data = uip_buf
        /\ TxBD.length = uip_len


(* -------------------- bring-up with any station address --------------- *)
SpecAddress == InitHash /\ [][vInitFEC]_vars

(* C28: after vInitFEC the station-address registers hold bytes 0..3 of the MAC
   address in PALR, byte 0 most significant, and bytes 4..5 in the upper half of
   PAUR; the individual-address hash bitmap has exactly one bit set, bit h of
   IALR if h < 32 and bit h - 32 of IAUR otherwise, h = fec_hash_address(MAC);
   the group-address hash bitmap is zero. *)
C28_AddressFilterInstalled ==
    (pc \in {"REGS", "ENABLE", "idle"}) =>
        LET h == HashOfAddress[ucMACAddress]
        IN  /\ regs.PALR = << ucMACAddress[1], ucMACAddress[2], ucMACAddress[3],
                              ucMACAddress[4] >>
            /\ regs.PAUR = << ucMACAddress[5], ucMACAddress[6], 0, 0 >>
            /\ h \in 0..63
            /\ regs.IALR = (IF h < 32 THEN {h} ELSE {})
            /\ regs.IAUR = (IF h < 32 THEN {} ELSE {h - 32})
            /\ regs.GALR = {}
            /\ regs.GAUR = {}

\* vInitFEC has returned with an address whose hash is below 32 and whose first
\* byte has its top bit set.
C28_Witness ==
    /\ pc = "idle"
    /\ HashOfAddress[ucMACAddress] < 32
    /\ ucMACAddress[1] = 255
    /\ regs.IALR # {}


(* ------------------------ the driver under fairness ------------------- *)
\* The statements of the uIP task.
TaskStep ==
    \/ usGetFECRxData_ReadLength
    \/ usGetFECRxData_Return
    \/ vDiscardRxData_Free
    \/ vDiscardRxData_Advance
    \/ vSendBufferToFEC_Take
    \/ vSendBufferToFEC_Timeout
    \/ vSendBufferToFEC_CheckBusy
    \/ vSendBufferToFEC_SetLength
    \/ vSendBufferToFEC_SetReady
    \/ vSendBufferToFEC_SetData
    \/ vSendBufferToFEC_SetOwner
    \/ vSendBufferToFEC_Advance
    \/ vSendBufferToFEC_Doorbell

\* The task keeps running, a pending interrupt is served, and the transmit DMA
\* sends a frame it has been given.
SpecFair ==
    /\ Init
    /\ [][Next]_vars
    /\ WF_vars(vInitFEC)
    /\ WF_vars(TaskStep)
    /\ WF_vars(vFEC_ISR)
    /\ WF_vars(HwTransmit)

(* C29: recovery returns the transmit path to steady state: from any reachable
   state, including one where a transmit was in flight when vFEC_ISR reset the
   FEC, xTxSemaphore eventually becomes available again. *)
C29_TransmitTokenReturns == [](Configured => <>(xTxSemaphore = 1))


(* C30: with a MAC that raises one transmit-complete event per frame sent, after
   clearing TX_BD_R, xTxSemaphore is available only while the transmit
   descriptor is software-owned; so vSendBufferToFEC never finds the descriptor
   busy after taking the semaphore, and it never starts a submit while a frame
   is in flight. *)
C30_TokenImpliesFreeDescriptor ==
    /\ (Configured /\ xTxSemaphore = 1) => "TX_BD_R" \notin TxBD.status
    /\ pc \notin {"snd609", "snd613"}
    /\ (pc \in {"snd606", "snd620", "snd621"}) =>
           /\ "TX_BD_R" \notin TxBD.status
           /\ xTxSemaphore = 0

\* A second submit has taken the token that the completion of the first gave back.
C30_Witness ==
    /\ pc = "snd606"
    /\ TxBD.data # NULL
    /\ "TX_BD_R" \notin TxBD.status
    /\ xTxSemaphore = 0
    /\ regs.EIR \cap TxEvents = {}



(* ------------- the cursor increment and its wrap test apart ----------- *)
\* uxNextRxBuffer++ (lines 592 and 628) is a step of its own: vFEC_ISR can run
\* before the wrap test that follows, so the value it leaves is visible to it.
\* A wrap test that lets the value N through.
WrapRxIndex_Greater(ux) == IF ux > N THEN 0 ELSE ux

\* Lines 593-596 and 629-632: if( uxNextRxBuffer >= configNUM_FEC_RX_BUFFERS ).
WrapRxIndex(ux) == IF ux >= N THEN 0 ELSE ux

\* Line 592.
vDiscardRxData_Increment ==
    /\ pc \in {"dis592", "drop592"}
    /\ TaskRuns
    /\ uxNextRxBuffer' = uxNextRxBuffer + 1
    /\ pc' = IF pc = "dis592" THEN "dis593" ELSE "drop593"
    /\ last' = Last("vDiscardRxData_Increment", 0, {})
    /\ UNCHANGED << configVars, xFECRxDescriptors, xFECTxDescriptors, uxIndexToBufferOwner,
                    stackVars, semVars, regs, hwRxBD, usLen, bringUpVars >>

\* Lines 593-597; vDiscardRxData returns, and with it vSendBufferToFEC when it
\* was the caller.
vDiscardRxData_Wrap ==
    /\ pc \in {"dis593", "drop593"}
    /\ TaskRuns
    /\ uxNextRxBuffer' = WrapRxIndex(uxNextRxBuffer)
    /\ pc' = "idle"
    /\ last' = IF pc = "dis593" THEN Last("vDiscardRxData", 0, {})
               ELSE Last("vSendBufferToFEC", 0, {"dropped"})
    /\ UNCHANGED << configVars, xFECRxDescriptors, xFECTxDescriptors, uxIndexToBufferOwner,
                    stackVars, semVars, regs, hwRxBD, usLen, bringUpVars >>

\* Line 628.
vSendBufferToFEC_Increment ==
    /\ pc = "snd628"
    /\ TaskRuns
    /\ uxNextRxBuffer' = uxNextRxBuffer + 1
    /\ pc' = "snd629"
    /\ last' = Last("vSendBufferToFEC_Increment", 0, {})
    /\ UNCHANGED << configVars, xFECRxDescriptors, xFECTxDescriptors, uxIndexToBufferOwner,
                    stackVars, semVars, regs, hwRxBD, usLen, bringUpVars >>

\* Lines 629-632.
vSendBufferToFEC_Wrap ==
    /\ pc = "snd629"
    /\ TaskRuns
    /\ uxNextRxBuffer' = WrapRxIndex(uxNextRxBuffer)
    /\ pc' = "snd635"
    /\ last' = Last("vSendBufferToFEC_Wrap", 0, {})
    /\ UNCHANGED << configVars, xFECRxDescriptors, xFECTxDescriptors, uxIndexToBufferOwner,
                    stackVars, semVars, regs, hwRxBD, usLen, bringUpVars >>

\* The driver with every statement of the two cursor advances a step of its own.
NextCursor ==
    \/ vInitFEC
    \/ usGetFECRxData_ReadLength
    \/ usGetFECRxData_Return
    \/ vDiscardRxData_Free
    \/ vDiscardRxData_Increment
    \/ vDiscardRxData_Wrap
    \/ vSendBufferToFEC_Take
    \/ vSendBufferToFEC_Timeout
    \/ vSendBufferToFEC_CheckBusy
    \/ vSendBufferToFEC_SetLength
    \/ vSendBufferToFEC_SetReady
    \/ vSendBufferToFEC_SetData
    \/ vSendBufferToFEC_SetOwner
    \/ vSendBufferToFEC_Increment
    \/ vSendBufferToFEC_Wrap
    \/ vSendBufferToFEC_Doorbell
    \/ vFEC_ISR
    \/ HwReceive
    \/ HwReceiveIdle
    \/ HwTransmit
    \/ HwTransmitIdle
    \/ HwFault
    \/ TaskWake

SpecCursor == Init /\ [][NextCursor]_vars

(* C31, as amended: uxIndexToBufferOwner is a ring index in every state, and
   so is uxNextRxBuffer in every state but one kind: after uxNextRxBuffer++ on
   the last slot it holds N until the wrap test that follows, and in those
   states no descriptor is indexed by it (a fatal interrupt taken there sets it
   to 0).  So every descriptor access of the task and of vFEC_ISR is inside the
   receive ring, also across resets, which leave uxIndexToBufferOwner alone.
   The positions between an increment and its wrap test are dis593, drop593
   and snd629; those at which the task indexes the ring by uxNextRxBuffer or
   copies it (lines 572, 574-576, 590, 625) are idle, get574, holding, drop590
   and snd625. *)
C31_IndicesInRangeAtEveryAccess ==
    /\ uxIndexToBufferOwner \in 0..(N - 1)
    /\ uxNextRxBuffer \in 0..N
    /\ (uxNextRxBuffer = N) => pc \in {"dis593", "drop593", "snd629"}
    /\ (pc \in {"idle", "get574", "holding", "drop590", "snd625"}) =>
           uxNextRxBuffer \in 0..(N - 1)

\* A fatal interrupt ran between the increment on the last slot and its wrap
\* test: the cursor is back at 0 and the owner index still names the last slot.
C31_Witness ==
    /\ N >= 2
    /\ pc = "snd629"
    /\ last.op = "vFEC_ISR"
    /\ IsFatal(last.ev)
    /\ uxNextRxBuffer = 0
    /\ uxIndexToBufferOwner = N - 1

(* C31, as stated: in every reachable state both uxNextRxBuffer and
   uxIndexToBufferOwner are below N. *)
C31_IndicesAlwaysBelowN ==
    /\ uxNextRxBuffer \in 0..(N - 1)
    /\ uxIndexToBufferOwner \in 0..(N - 1)



(* ------------------------- polls one after another -------------------- *)
\* Line 572 called again by a consumer that may poll at any time, also while it
\* holds a frame; the record notes whether the previous step was the return of
\* a poll that no step interrupted.
usGetFECRxData_ReadLength_Again ==
    /\ pc \in {"idle", "holding"}
    /\ TaskRuns
    /\ usLen' = xFECRxDescriptors[uxNextRxBuffer].length
    /\ pc' = "get574"
    /\ polled' = [ polled EXCEPT !.chained = (last.op = "usGetFECRxData" /\ polled.clean) ]
    /\ last' = Last("usGetFECRxData_ReadLength", 0, {})
    /\ UNCHANGED << N, ucMACAddress, rxOrder, mii, ringVars, stackVars, semVars, regs, hwRxBD,
                    bringUpVars >>

\* A variant of the return that consumes what it reports: it zeroes the length
\* of the descriptor it returns.
usGetFECRxData_Return_Consuming ==
    /\ pc = "get574"
    /\ TaskRuns
    /\ LET found == FrameAvailable(usLen, xFECRxDescriptors[uxNextRxBuffer])
           usReturn == IF found THEN usLen ELSE 0
       IN  /\ uip_buf' = IF found THEN xFECRxDescriptors[uxNextRxBuffer].data ELSE uip_buf
           /\ uip_len' = usReturn
           /\ pc' = IF found THEN "holding" ELSE "idle"
           /\ polled' = [ len |-> usReturn, buf |-> uip_buf', chained |-> FALSE,
                          clean |-> last.op = "usGetFECRxData_ReadLength",
                          twice |-> polled.chained /\ last.op = "usGetFECRxData_ReadLength" ]
           /\ last' = Last("usGetFECRxData", usReturn, {})
           /\ xFECRxDescriptors' = IF found
                                   THEN [ xFECRxDescriptors EXCEPT ![uxNextRxBuffer].length = 0 ]
                                   ELSE xFECRxDescriptors
    /\ usLen' = 0
    /\ UNCHANGED << N, ucMACAddress, rxOrder, mii, xFECTxDescriptors, uxNextRxBuffer,
                    uxIndexToBufferOwner, semVars, regs, hwRxBD, bringUpVars >>

\* Lines 574-583 with the result recorded.
usGetFECRxData_Return_Recorded ==
    /\ pc = "get574"
    /\ TaskRuns
    /\ LET found == FrameAvailable(usLen, xFECRxDescriptors[uxNextRxBuffer])
           usReturn == IF found THEN usLen ELSE 0
       IN  /\ uip_buf' = IF found THEN xFECRxDescriptors[uxNextRxBuffer].data ELSE uip_buf
           /\ uip_len' = usReturn
           /\ pc' = IF found THEN "holding" ELSE "idle"
           /\ polled' = [ len |-> usReturn, buf |-> uip_buf', chained |-> FALSE,
                          clean |-> last.op = "usGetFECRxData_ReadLength",
                          twice |-> polled.chained /\ last.op = "usGetFECRxData_ReadLength" ]
           /\ last' = Last("usGetFECRxData", usReturn, {})
    /\ usLen' = 0
    /\ UNCHANGED << N, ucMACAddress, rxOrder, mii, ringVars, semVars, regs, hwRxBD,
                    bringUpVars >>

NextPoll ==
    \/ vInitFEC
    \/ usGetFECRxData_ReadLength_Again
    \/ usGetFECRxData_Return_Recorded
    \/ vDiscardRxData_Free
    \/ vDiscardRxData_Advance
    \/ vSendBufferToFEC_Take
    \/ vSendBufferToFEC_Timeout
    \/ vSendBufferToFEC_CheckBusy
    \/ vSendBufferToFEC_SetLength
    \/ vSendBufferToFEC_SetReady
    \/ vSendBufferToFEC_SetData
    \/ vSendBufferToFEC_SetOwner
    \/ vSendBufferToFEC_Advance
    \/ vSendBufferToFEC_Doorbell
    \/ vFEC_ISR
    \/ HwReceive
    \/ HwReceiveIdle
    \/ HwTransmit
    \/ HwTransmitIdle
    \/ HwFault
    \/ TaskWake

SpecPoll == Init /\ [][NextPoll]_vars

(* C32: usGetFECRxData changes no descriptor of either ring, neither index, no
   register (so no doorbell) and no semaphore; it writes uip_buf only when it
   returns a nonzero length, and then with the data pointer of the cursor's
   descriptor; and of two polls made one after the other, with no
   interrupt or hardware step from the start of the first to the return of the
   second, the second returns the same length and leaves the same uip_buf.
   A step of usGetFECRxData is one in which the task enters or leaves the
   position of line 574 (interrupt and hardware steps leave the task where it
   is); the second of two such polls returns from a poll that is chained, with
   the read of line 572 as the step before. *)
C32_PollIsReadOnly ==
    [][ /\ ((pc = "get574") # (pc' = "get574")) =>
            /\ UNCHANGED << ringVars, semVars, regs, hwRxBD >>
            /\ (pc = "get574") =>
                   /\ (last'.ret = 0) => uip_buf' = uip_buf
                   /\ (last'.ret # 0) => uip_buf' = xFECRxDescriptors[uxNextRxBuffer].data
            /\ (pc' = "get574") => uip_buf' = uip_buf
        /\ (/\ pc = "get574" /\ pc' # "get574"
            /\ polled.chained
            /\ last.op = "usGetFECRxData_ReadLength") =>
            /\ last'.ret = polled.len
            /\ uip_buf' = polled.buf
            /\ polled'.twice ]_vars

\* Two polls one after the other have both returned the frame at the cursor.
C32_Witness ==
    /\ last.op = "usGetFECRxData"
    /\ last.ret # 0
    /\ pc = "holding"
    /\ polled.twice
    /\ polled.len = last.ret
    /\ polled.buf = uip_buf
    /\ uip_buf = xFECRxDescriptors[uxNextRxBuffer].data
    /\ "RX_BD_E" \notin xFECRxDescriptors[uxNextRxBuffer].status

====
